---- MODULE Spec2Model ----
(***************************************************************************)
(* A model of the wikipedia-graph crate: the HTTP fetch engine             *)
(* (WikipediaClient::get_request, in its channel-based build and in its    *)
(* polled-cell build for wasm32), the page content model and the graph     *)
(* expansion (WikipediaGraph::try_expand_node).                            *)
(*                                                                         *)
(* Strings whose characters matter (titles, pathinfos) are sequences of    *)
(* one-character strings; Option<T> is a sequence of length at most one.   *)
(***************************************************************************)
EXTENDS Integers, Sequences, FiniteSets, TLC

VARIABLES
    timeout,    \* WikipediaClient.timeout: Option<Duration>, in seconds
    script,     \* the transport's answers, one per hop, fixed once given
    req,        \* per build: the state of one get_request call and its workers
    nodes,      \* the graph's node payloads (WikipediaPage), by node index
    edges,      \* the graph's edges in insertion order, <<from, to>>
    last,       \* the last graph operation: its index and result, whether it
                \* repeats the expansion before it, and what it changed
    self,       \* one WikipediaPage on its own, the receiver of the page methods
    selfLast,   \* the last method called on self, or the last function of
                \* the page module that was called: the body it was given,
                \* its other arguments (arg), what it returned (linked, out),
                \* the pathinfo before it, the number of bodies attached
    config,     \* one WikipediaClientConfig under construction
    configLast, \* the last method called on config: its arguments, the
                \* header set before it, Ok or the error it returned
    codegen,    \* the language code generator: the site matrix it is given,
                \* the language table it makes of it, the last lookup
    net,        \* the application's InternetStatus, its test store and clock
    app         \* the application: its graph, the queue of fetch results
                \* (node_stores) and its lock, the fetches under way

vars == <<timeout, script, req, nodes, edges, last, self, selfLast,
          config, configLast, codegen, net, app>>

fetchVars == <<timeout, script, req>>

graphVars == <<nodes, edges, last>>

pageVars == <<self, selfLast>>

configVars == <<config, configLast>>

\* The variables of the application crates
appVars == <<codegen, net, app>>

(***************************************************************************)
(* Option<T>                                                               *)
(***************************************************************************)
None == <<>>

Some(x) == <<x>>

IsSome(o) == Len(o) = 1

Unwrap(o) == o[1]

(***************************************************************************)
(* The fetch engine                                                        *)
(***************************************************************************)

\* Amount of redirects the client accepts
CLIENT_REDIRECTS == 2

\* Duration::from_hours(16), the wait of the channel build without a timeout
FallbackNative == 57600

\* Duration::from_hours(24), the wait of the polled build without a timeout
FallbackWasm == 86400

\* The largest configured timeout the model draws, in seconds
MaxTimeout == 2

\* The clock stops here; every wait under a configured timeout ends earlier
MaxClock == CLIENT_REDIRECTS * (MaxTimeout + 1) + 1

Envs == {"native", "wasm"}

Timeouts == {None} \cup {Some(t) : t \in 1..MaxTimeout}

InitialUrl == "u0"

RedirectTargets == {"u1", "u2"}

\* Result<String, HttpError> as a record; text holds the body or the URL
OkBody(text) == [tag |-> "Ok", text |-> text, code |-> 0]

ErrBackend == [tag |-> "Backend", text |-> "", code |-> 0]

ErrPageNotFound == [tag |-> "PageNotFound", text |-> "", code |-> 0]

ErrTimeout == [tag |-> "Timeout", text |-> "", code |-> 0]

ErrNoPageBody == [tag |-> "NoPageBody", text |-> "", code |-> 0]

ErrTooManyRedirects == [tag |-> "TooManyRedirects", text |-> "", code |-> 0]

ErrRedirect(url) == [tag |-> "Redirect", text |-> url, code |-> 0]

ErrUnknown(code) == [tag |-> "Unknown", text |-> "", code |-> code]

\* What the transport hands to the fetch closure: Err(String) or a Response
TransportError == [ok |-> FALSE, status |-> 0, location |-> None, text |-> FALSE]

HttpResponse(status, location, text) ==
    [ok |-> TRUE, status |-> status, location |-> location, text |-> text]

Responses ==
    {TransportError}
    \cup {HttpResponse(301, Some(u), TRUE) : u \in RedirectTargets}
    \cup {HttpResponse(301, None, TRUE),
          HttpResponse(200, None, TRUE),
          HttpResponse(200, None, FALSE),
          HttpResponse(404, None, TRUE),
          HttpResponse(500, None, TRUE),
          HttpResponse(1000, None, TRUE)}

\* The text the server at url serves: it names the url it came from
BodyOf(url) == url

\* StatusCode::from_u16 accepts 100..=999
ValidStatus(status) == status >= 100 /\ status < 1000

\* A classification without the 404 case: 404 falls through to Unknown
parse_status_code_without_404(response) ==
    IF response.status >= 300 /\ response.status < 400 /\ IsSome(response.location)
    THEN ErrRedirect(Unwrap(response.location))
    ELSE IF response.status >= 200 /\ response.status < 300
    THEN OkBody("")
    ELSE ErrUnknown(response.status)

parse_status_code(response) ==
    IF response.status >= 300 /\ response.status < 400 /\ IsSome(response.location)
    THEN ErrRedirect(Unwrap(response.location))
    ELSE IF response.status = 404
    THEN ErrPageNotFound
    ELSE IF response.status >= 200 /\ response.status < 300
    THEN OkBody("")
    ELSE ErrUnknown(response.status)

\* A closure that hands out the body of a 2xx without decoding its text
ResponseProcessedUndecoded(response, url) ==
    IF ~response.ok
    THEN ErrBackend
    ELSE IF ~ValidStatus(response.status)
    THEN ErrUnknown(response.status)
    ELSE LET parsed == parse_status_code(response)
         IN  IF parsed.tag # "Ok" THEN parsed ELSE OkBody(BodyOf(url))

\* response_processed of the fetch closure, for the request sent to url
ResponseProcessed(response, url) ==
    IF ~response.ok
    THEN ErrBackend
    ELSE IF ~ValidStatus(response.status)
    THEN ErrUnknown(response.status)
    ELSE LET parsed == parse_status_code(response)
         IN  IF parsed.tag # "Ok"
             THEN parsed
             ELSE IF response.text THEN OkBody(BodyOf(url)) ELSE ErrNoPageBody

\* self.timeout.unwrap_or(...) of the build's wait
WaitLimit(e) ==
    IF IsSome(timeout)
    THEN Unwrap(timeout)
    ELSE IF e = "native" THEN FallbackNative ELSE FallbackWasm

\* The wait is over once the limit has passed with nothing received:
\* recv_timeout(limit) returns Err then; the polled build looks at the cell
\* at whole seconds since poll_start, and its reading of the clock at second
\* k, taken after the look, is greater than k
WaitExpired(e, waited) ==
    IF e = "native" THEN waited >= WaitLimit(e) ELSE waited + 1 > WaitLimit(e)

\* 'redirect_loop: while redirects != 0
LoopContinues(redirects) == redirects # 0

\* A loop that ends without an error value: a silent empty body
LoopExitSilent == OkBody("")

\* HttpError::LanguageInvalidError, made from LanguageInvalidError by `?`
ErrLanguageInvalid == [tag |-> "LanguageInvalid", text |-> "", code |-> 0]

\* WikiLanguage::from_code("en")
English == [name |-> "English", wiki |-> Some(<<"e", "n">>)]

\* Err(HttpError::TooManyRedirects) after the loop
LoopExitResult == ErrTooManyRedirects

\* A client with its language, before get_callback is called on it
NewRequest(language) ==
    [pc |-> "start", language |-> language, redirects |-> CLIENT_REDIRECTS, url |-> InitialUrl,
     issued |-> 0, inflight |-> {}, chan |-> None, elapsed |-> 0,
     hopStart |-> 0, outcome |-> None, callbacks |-> 0,
     callbacksAtReturn |-> 0, panicked |-> FALSE, received |-> <<>>]

\* A return that starts the next hop when the wait has run out
ReturnOrRetry(r, result) ==
    IF result.tag = "Timeout"
    THEN [r EXCEPT !.pc = "loop"]
    ELSE [r EXCEPT !.pc = "done", !.outcome = Some(result),
                   !.callbacksAtReturn = r.callbacks]

\* get_request returns result to its caller
Return(r, result) ==
    [r EXCEPT !.pc = "done", !.outcome = Some(result),
              !.callbacksAtReturn = r.callbacks]

\* ehttp::fetch(request.clone(), ...); redirects -= 1; then the wait begins
Issue(e) ==
    LET r == req[e]
    IN  /\ r.pc = "loop"
        /\ LoopContinues(r.redirects)
        /\ req' = [req EXCEPT ![e] =
               [r EXCEPT !.pc = "wait",
                         !.issued = r.issued + 1,
                         !.redirects = r.redirects - 1,
                         !.inflight = r.inflight \cup
                             {[hop |-> r.issued + 1, url |-> r.url]},
                         !.chan = None,
                         !.hopStart = r.elapsed]]
        /\ UNCHANGED <<timeout, script, graphVars, pageVars, configVars, appVars>>

\* the loop condition fails: the function ends after the loop
Exhausted(e) ==
    LET r == req[e]
    IN  /\ r.pc = "loop"
        /\ ~LoopContinues(r.redirects)
        /\ req' = [req EXCEPT ![e] = Return(r, LoopExitResult)]
        /\ UNCHANGED <<timeout, script, graphVars, pageVars, configVars, appVars>>

\* The worker may run the closure while the caller does not hold the thread:
\* always in the channel build; in the polled build only once the caller has
\* returned, the poll loop never yielding to the scheduler
WorkerCanRun(e, r) == e = "native" \/ r.pc = "done"

\* What the closure's send does to the request: the channel build panics
\* when the receiver is gone, the polled build writes the cell in any case
Deposit(e, r, hop, result) ==
    IF e = "native"
    THEN IF r.pc = "wait" /\ hop = r.issued
         THEN [r EXCEPT !.chan = Some(result)]
         ELSE [r EXCEPT !.panicked = TRUE]
    ELSE IF r.pc = "wait" /\ hop = r.issued
         THEN [r EXCEPT !.chan = Some(result)]
         ELSE r

\* The closure given to ehttp::fetch: process the response, run the caller's
\* callback, send the result
Complete(e) ==
    LET r == req[e]
    IN  /\ WorkerCanRun(e, r)
        /\ \E q \in r.inflight, response \in Responses :
             /\ q.hop <= Len(script) => response = script[q.hop]
             /\ script' = IF q.hop <= Len(script)
                          THEN script
                          ELSE Append(script, response)
             /\ LET ran == [r EXCEPT !.inflight = r.inflight \ {q},
                                     !.callbacks = r.callbacks + 1]
                IN  req' = [req EXCEPT ![e] =
                        Deposit(e, ran, q.hop,
                                ResponseProcessed(response, q.url))]
        /\ UNCHANGED <<timeout, graphVars, pageVars, configVars, appVars>>

\* Ok(Some(response)) of recv_timeout, Some(response) of the cell
Receive(e) ==
    LET r == req[e]
    IN  /\ r.pc = "wait"
        /\ IsSome(r.chan)
        /\ LET response == Unwrap(r.chan)
               got == [r EXCEPT !.chan = None,
                                !.received = Append(r.received, response)]
           IN  req' = [req EXCEPT ![e] =
                   IF response.tag = "Redirect"
                   THEN [got EXCEPT !.url = response.text, !.pc = "loop"]
                   ELSE Return(got, response)]
        /\ UNCHANGED <<timeout, script, graphVars, pageVars, configVars, appVars>>

\* Err(_) of recv_timeout, the None arm of the cell past the limit
TimedOut(e) ==
    LET r == req[e]
    IN  /\ r.pc = "wait"
        /\ r.chan = None
        /\ WaitExpired(e, r.elapsed - r.hopStart)
        /\ req' = [req EXCEPT ![e] = Return(r, ErrTimeout)]
        /\ UNCHANGED <<timeout, script, graphVars, pageVars, configVars, appVars>>

\* One second passes while the caller waits with nothing to receive
Tick(e) ==
    LET r == req[e]
    IN  /\ r.pc = "wait"
        /\ r.chan = None
        /\ ~WaitExpired(e, r.elapsed - r.hopStart)
        /\ r.elapsed < MaxClock
        /\ req' = [req EXCEPT ![e] = [r EXCEPT !.elapsed = r.elapsed + 1]]
        /\ UNCHANGED <<timeout, script, graphVars, pageVars, configVars, appVars>>

(***************************************************************************)
(* The client configuration and its header set                             *)
(***************************************************************************)

\* The letters, by their place in the alphabet
LowerCase ==
    <<"a", "b", "c", "d", "e", "f", "g", "h", "i", "j", "k", "l",
      "m", "n", "o", "p", "q", "r", "s", "t", "u", "v", "w", "x",
      "y", "z">>

UpperCase ==
    <<"A", "B", "C", "D", "E", "F", "G", "H", "I", "J", "K", "L",
      "M", "N", "O", "P", "Q", "R", "S", "T", "U", "V", "W", "X",
      "Y", "Z">>

Digits == {"0", "1", "2", "3", "4", "5", "6", "7", "8", "9"}

\* char::to_uppercase().next()
to_uppercase(char) ==
    IF \E i \in 1..Len(LowerCase) : LowerCase[i] = char
    THEN UpperCase[CHOOSE i \in 1..Len(LowerCase) : LowerCase[i] = char]
    ELSE char

\* char::to_ascii_lowercase
to_lowercase(char) ==
    IF \E i \in 1..Len(UpperCase) : UpperCase[i] = char
    THEN LowerCase[CHOOSE i \in 1..Len(UpperCase) : UpperCase[i] = char]
    ELSE char

\* The url_type of every client: WikipediaClientConfig::default
ClientUrlType == "RawApi"

\* http::header::USER_AGENT
header_USER_AGENT == <<"u", "s", "e", "r", "-", "a", "g", "e", "n", "t">>

\* A header value is written as the sequence of its pieces, a control
\* character being a piece of its own.
\* USER_AGENT of the library: package name, "/", package version
USER_AGENT == <<"wikipedia-graph", "/", "CARGO_PKG_VERSION">>

\* USER_AGENT of the application
egui_USER_AGENT == <<"wikipedia-egui-graph", "/", "0.1.1">>

\* Duration::from_secs(5)
DefaultTimeoutSecs == 5

\* The characters of a header name besides letters and digits (and the
\* apostrophe and the grave accent, which no name here has)
NameSymbols ==
    {"!", "#", "$", "%", "&", "*", "+", "-", ".", "^", "_", "|", "~"}

ValidNameChar(char) ==
    \/ \E i \in 1..Len(LowerCase) : LowerCase[i] = to_lowercase(char)
    \/ char \in Digits
    \/ char \in NameSymbols

\* HeaderName::from_str: the name in lower case, None for InvalidHeaderName
HeaderName_from_str(name) ==
    IF name = <<>> \/ \E i \in 1..Len(name) : ~ValidNameChar(name[i])
    THEN None
    ELSE Some([i \in 1..Len(name) |-> to_lowercase(name[i])])

\* Bytes a header value may not hold
ControlChars == {"\n", "\r"}

\* HeaderValue::from_str: the value as it is, None for InvalidHeaderValue
HeaderValue_from_str(value) ==
    IF \E i \in 1..Len(value) : value[i] \in ControlChars
    THEN None
    ELSE Some(value)

\* The largest number of entries of a HeaderMap
MAX_SIZE == 32768

\* HeaderMap::try_insert: the value of a name that is present is replaced;
\* None for MaxSizeReached
try_insert(headers, name, value) ==
    IF (\A h \in headers : h.name # name) /\ Cardinality(headers) >= MAX_SIZE
    THEN None
    ELSE Some({h \in headers : h.name # name}
                  \cup {[name |-> name, value |-> value]})

\* Result<WikipediaClientConfig, HeaderError>
ConfigOk(c) == [tag |-> "Ok", config |-> Some(c)]

ConfigErr(error) == [tag |-> error, config |-> None]

\* WikipediaClientConfig::add_header
add_header(c, name, value) ==
    LET header_name == HeaderName_from_str(name)
        header_value == HeaderValue_from_str(value)
    IN  IF ~IsSome(header_name)
        THEN ConfigErr("InvalidHeaderName")
        ELSE IF ~IsSome(header_value)
        THEN ConfigErr("InvalidHeaderValue")
        ELSE LET inserted == try_insert(c.headers, Unwrap(header_name),
                                        Unwrap(header_value))
             IN  IF ~IsSome(inserted)
                 THEN ConfigErr("HeaderMapMaxSizeReached")
                 ELSE ConfigOk([c EXCEPT !.headers = Unwrap(inserted)])

\* WikipediaClientConfig::user_agent
user_agent(c, agent) == add_header(c, header_USER_AGENT, agent)

\* WikipediaClientConfig::timeout
config_timeout(c, duration) == [c EXCEPT !.timeout = duration]

\* WikipediaClientConfig::language
config_language(c, language) == [c EXCEPT !.language = language]

\* The struct literal of WikipediaClientConfig::default, before user_agent
WithoutHeaders ==
    [language |-> English, timeout |-> Some(DefaultTimeoutSecs),
     headers |-> {}, url_type |-> ClientUrlType]

\* WikipediaClientConfig::default: .user_agent(USER_AGENT).expect(..)
default_config == Unwrap(user_agent(WithoutHeaders, USER_AGENT).config)

\* The client_config of WikipediaGraphAppBuilder::default, before .expect(..)
builder_client_config ==
    user_agent(config_language(default_config, English), egui_USER_AGENT)

ConfigIdle ==
    /\ config = default_config
    /\ configLast = [op |-> "default", name |-> <<>>, value |-> <<>>,
                     headersBefore |-> {}, tag |-> "Ok"]

GraphIdle ==
    /\ nodes = <<>>
    /\ edges = <<>>
    /\ last = [op |-> "none", index |-> 0, result |-> None, again |-> FALSE,
               nodesBefore |-> 0, changed |-> FALSE, simpleBefore |-> TRUE,
               uniqueBefore |-> TRUE]

PageIdle ==
    /\ self = [pathinfo |-> <<"a">>, body |-> None]
    /\ selfLast = [op |-> "none", pathinfoBefore |-> <<"a">>, data |-> None,
                   linked |-> None, loads |-> 0, arg |-> None, out |-> None]

(***************************************************************************)
(* Pages and the graph                                                     *)
(***************************************************************************)

\* The most nodes add_node is called for from outside an expansion
MaxNodes == 1

\* The most bodies attached to nodes in one behaviour
MaxLoads == 1

\* The longest links array of a body
MaxLinks == 2

\* Titles as the Links payload carries them
TitlePool == {<<"a">>, <<"b", " ", "c">>}

\* str::replace for one character
ReplaceChar(s, from, to) ==
    [i \in 1..Len(s) |-> IF s[i] = from THEN to ELSE s[i]]

\* WikipediaPage::from_title
from_title(title) ==
    [pathinfo |-> ReplaceChar(title, " ", "_"), body |-> None]

\* WikipediaBody::Links: title is query.pages.<entry>.title, links the
\* titles of query.pages.<entry>.links[], each absent when the key is
LinksBody(title, links) ==
    [kind |-> "Links", title |-> title, links |-> links, wikitext |-> None]

\* WikipediaBody::WikiText: title is parse.title, wikitext the string under
\* parse.wikitext, each absent when the key is
WikiTextBody(title, wikitext) ==
    [kind |-> "WikiText", title |-> title, links |-> None, wikitext |-> wikitext]

LinkLists == UNION {[1..n -> {Some(t) : t \in TitlePool}] : n \in 0..MaxLinks}

\* WikipediaBody::get_pathinfo
get_pathinfo(body) ==
    IF body.kind = "Links" THEN body.title ELSE None

\* A set_page_body that empties the pathinfo when the body gives none
set_page_body_clearing(page, data) ==
    LET pathinfo_new == get_pathinfo(data)
    IN  [pathinfo |-> IF IsSome(pathinfo_new) THEN Unwrap(pathinfo_new) ELSE <<>>,
         body |-> Some(data)]

\* WikipediaPage::set_page_body
set_page_body(page, data) ==
    LET pathinfo_new == get_pathinfo(data)
    IN  [pathinfo |-> IF IsSome(pathinfo_new)
                      THEN Unwrap(pathinfo_new)
                      ELSE page.pathinfo,
         body |-> Some(data)]

\* filter_map over the links array: entries without a title are skipped
RECURSIVE PagesOfLinks(_)
PagesOfLinks(links) ==
    IF links = <<>>
    THEN <<>>
    ELSE IF IsSome(links[1])
         THEN <<from_title(Unwrap(links[1]))>> \o PagesOfLinks(Tail(links))
         ELSE PagesOfLinks(Tail(links))

\* WikipediaBody::get_linked_pages_from_links: None without a links array
get_linked_pages_from_links(value) ==
    IF IsSome(value.links) THEN Some(PagesOfLinks(Unwrap(value.links))) ELSE None

\* "Wayback Machine"
WaybackMachine ==
    <<"W", "a", "y", "b", "a", "c", "k", " ", "M", "a", "c", "h", "i", "n", "e">>

\* WikipediaBody::FILTERED_PAGES
FILTERED_PAGES == {WaybackMachine}

\* The characters of the class [a-zA-Z0-9 \(\)] of PAGE_TEXT_REGEX
LinkChars ==
    {"a", "b", "c", "d", "e", "f", "g", "h", "i", "j", "k", "l", "m",
     "n", "o", "p", "q", "r", "s", "t", "u", "v", "w", "x", "y", "z",
     "A", "B", "C", "D", "E", "F", "G", "H", "I", "J", "K", "L", "M",
     "N", "O", "P", "Q", "R", "S", "T", "U", "V", "W", "X", "Y", "Z",
     "0", "1", "2", "3", "4", "5", "6", "7", "8", "9",
     " ", "(", ")"}

\* str::contains
Contains(s, sub) ==
    \E i \in 0..(Len(s) - Len(sub)) : SubSeq(s, i + 1, i + Len(sub)) = sub

\* text reads s from position i on
IsAt(text, i, s) ==
    /\ i + Len(s) - 1 <= Len(text)
    /\ SubSeq(text, i, i + Len(s) - 1) = s

\* The last position of the longest run of class characters that starts at
\* i, i - 1 when there is none
RECURSIVE RunEnd(_, _)
RunEnd(text, i) ==
    IF i <= Len(text) /\ text[i] \in LinkChars
    THEN RunEnd(text, i + 1)
    ELSE i - 1

\* The match of PAGE_TEXT_REGEX that starts at position i, if there is one:
\* "[[", the first group, an optional "|" and label, "]]"
MatchAt(text, i) ==
    IF ~IsAt(text, i, <<"[", "[">>)
    THEN None
    ELSE LET targetEnd == RunEnd(text, i + 2)
             labelEnd == RunEnd(text, targetEnd + 2)
             target == SubSeq(text, i + 2, targetEnd)
         IN  IF targetEnd < i + 2
             THEN None
             ELSE IF IsAt(text, targetEnd + 1, <<"]", "]">>)
             THEN Some([end |-> targetEnd + 2, target |-> target])
             ELSE IF /\ IsAt(text, targetEnd + 1, <<"|">>)
                     /\ labelEnd >= targetEnd + 2
                     /\ IsAt(text, labelEnd + 1, <<"]", "]">>)
             THEN Some([end |-> labelEnd + 2, target |-> target])
             ELSE None

\* Regex::captures_iter from position i on, each capture extracted: the
\* whole match (capture_data.0) and the first group (capture_data.1[0])
RECURSIVE captures_iter(_, _)
captures_iter(text, i) ==
    IF i > Len(text)
    THEN <<>>
    ELSE LET m == MatchAt(text, i)
         IN  IF IsSome(m)
             THEN <<[whole |-> SubSeq(text, i, Unwrap(m).end),
                     target |-> Unwrap(m).target]>>
                  \o captures_iter(text, Unwrap(m).end + 1)
             ELSE captures_iter(text, i + 1)

\* Itertools::unique_by on the first group: the first capture of each target
RECURSIVE unique_by(_, _)
unique_by(captures, seen) ==
    IF captures = <<>>
    THEN <<>>
    ELSE IF captures[1].target \in seen
         THEN unique_by(Tail(captures), seen)
         ELSE <<captures[1]>>
              \o unique_by(Tail(captures), seen \cup {captures[1].target})

\* The filter closure: the whole match contains no filtered page
NotFiltered(capture_data) ==
    \A page \in FILTERED_PAGES : ~Contains(capture_data.whole, page)

\* WikipediaBody::get_linked_pages_from_wikitext: None without parse.wikitext
get_linked_pages_from_wikitext(value) ==
    IF IsSome(value.wikitext)
    THEN LET kept == SelectSeq(unique_by(captures_iter(Unwrap(value.wikitext), 1), {}),
                               NotFiltered)
         IN  Some([k \in 1..Len(kept) |-> from_title(kept[k].target)])
    ELSE None

\* WikipediaBody::get_linked_pages
get_linked_pages(body) ==
    IF body.kind = "Links"
    THEN get_linked_pages_from_links(body)
    ELSE get_linked_pages_from_wikitext(body)

\* WikipediaPage::try_get_linked_pages
try_get_linked_pages(page) ==
    IF IsSome(page.body) THEN get_linked_pages(Unwrap(page.body)) ELSE None

\* A graph value: node payloads by index (indices start at 1 here, at 0 in
\* petgraph) and edges in insertion order
Graph(ns, es) == [nodes |-> ns, edges |-> es]

\* WikipediaGraph::add_node: the new node's index is the next one
add_node(g, page) == Graph(Append(g.nodes, page), g.edges)

\* WikipediaGraph::add_edge: petgraph adds a parallel edge when one exists
add_edge(g, from, to) == Graph(g.nodes, Append(g.edges, <<from, to>>))

\* WikipediaGraph::edge_exists
edge_exists(g, lhs, rhs) ==
    \E k \in 1..Len(g.edges) : g.edges[k] = <<lhs, rhs>>

\* A lookup that takes every page for absent
node_never_exists(g, page) == None

\* A lookup that finds only nodes whose page has a body
node_exists_only_loaded(g, page) ==
    LET found == {i \in 1..Len(g.nodes) :
                     /\ g.nodes[i].pathinfo = page.pathinfo
                     /\ IsSome(g.nodes[i].body)}
    IN  IF found = {}
        THEN None
        ELSE Some(CHOOSE i \in found : \A j \in found : i <= j)

\* WikipediaGraph::node_exists_with_value: the first node with that pathinfo
node_exists_with_value(g, page) ==
    LET found == {i \in 1..Len(g.nodes) : g.nodes[i].pathinfo = page.pathinfo}
    IN  IF found = {}
        THEN None
        ELSE Some(CHOOSE i \in found : \A j \in found : i <= j)

\* The for loop of try_expand_node over the linked pages still to visit;
\* st holds the graph and the indices of the nodes created so far
RECURSIVE ExpandLoop(_, _, _)
ExpandLoop(st, index, pages) ==
    IF pages = <<>>
    THEN st
    ELSE LET page == pages[1]
             existing == node_exists_with_value(st.graph, page)
             next ==
                 IF IsSome(existing)
                 THEN IF ~edge_exists(st.graph, index, Unwrap(existing))
                      THEN [st EXCEPT !.graph =
                               add_edge(st.graph, index, Unwrap(existing))]
                      ELSE st
                 ELSE [graph |-> add_node(st.graph, page),
                       indicies |-> Append(st.indicies,
                                           Len(st.graph.nodes) + 1)]
         IN  ExpandLoop(next, index, Tail(pages))

\* An expansion that leaves the nodes it created without an edge
ConnectNothing(g, index, indicies) == g

\* indicies.iter().for_each(|node_index| self.add_edge(index, node_index))
RECURSIVE ConnectNew(_, _, _)
ConnectNew(g, index, indicies) ==
    IF indicies = <<>>
    THEN g
    ELSE ConnectNew(add_edge(g, index, indicies[1]), index, Tail(indicies))

\* An expansion that marks the node it could not expand with an edge to itself
try_expand_node_marking(g, index) ==
    IF index \notin 1..Len(g.nodes)
    THEN [result |-> None, graph |-> g]
    ELSE LET linked_pages == try_get_linked_pages(g.nodes[index])
         IN  IF ~IsSome(linked_pages)
             THEN [result |-> None, graph |-> add_edge(g, index, index)]
             ELSE LET st == ExpandLoop([graph |-> g, indicies |-> <<>>],
                                       index, Unwrap(linked_pages))
                  IN  [result |-> Some(st.indicies),
                       graph |-> ConnectNew(st.graph, index, st.indicies)]

\* expand_node_with_graph's match on the result: the new nodes are placed,
\* or the one warning there is, "node not found at index", is logged
ExpansionReport(result) ==
    IF IsSome(result) THEN "Expanded" ELSE "NodeNotFound"

\* WikipediaGraph::try_expand_node: the result and the graph afterwards
try_expand_node(g, index) ==
    IF index \notin 1..Len(g.nodes)
    THEN [result |-> None, graph |-> g]
    ELSE LET linked_pages == try_get_linked_pages(g.nodes[index])
         IN  IF ~IsSome(linked_pages)
             THEN [result |-> None, graph |-> g]
             ELSE LET st == ExpandLoop([graph |-> g, indicies |-> <<>>],
                                       index, Unwrap(linked_pages))
                  IN  [result |-> Some(st.indicies),
                       graph |-> ConnectNew(st.graph, index, st.indicies)]

\* The number of edges from one node to another
EdgeCount(g, from, to) ==
    Cardinality({k \in 1..Len(g.edges) : g.edges[k] = <<from, to>>})

\* At most one edge per ordered pair of nodes
Simple(g) ==
    \A k, l \in 1..Len(g.edges) : g.edges[k] = g.edges[l] => k = l

\* No two nodes with the same pathinfo
Unique(g) ==
    \A i, j \in 1..Len(g.nodes) : g.nodes[i].pathinfo = g.nodes[j].pathinfo => i = j

Loads == Cardinality({i \in 1..Len(nodes) : IsSome(nodes[i].body)})

\* graph.add_node(WikipediaPage::from_title(title))
AddNode ==
    /\ Len(nodes) < MaxNodes
    /\ \E title \in TitlePool :
         /\ nodes' = Append(nodes, from_title(title))
         /\ last' = [op |-> "add_node", index |-> Len(nodes) + 1,
                     result |-> None, again |-> FALSE,
                     nodesBefore |-> Len(nodes), changed |-> TRUE,
                     simpleBefore |-> Simple(Graph(nodes, edges)),
                     uniqueBefore |-> Unique(Graph(nodes, edges))]
    /\ UNCHANGED <<edges, fetchVars, pageVars, configVars, appVars>>

\* graph.node_weight_mut(index).set_page_body(body), the body being the
\* Links payload of that page, with its title or without one
SetPageBody ==
    \E index \in 1..Len(nodes), links \in {None} \cup {Some(l) : l \in LinkLists},
       titled \in BOOLEAN :
        /\ ~IsSome(nodes[index].body)
        /\ Loads < MaxLoads
        /\ LET title == IF titled
                        THEN Some(ReplaceChar(nodes[index].pathinfo, "_", " "))
                        ELSE None
           IN  nodes' = [nodes EXCEPT ![index] =
                   set_page_body(nodes[index], LinksBody(title, links))]
        /\ last' = [op |-> "set_page_body", index |-> index,
                    result |-> None, again |-> FALSE,
                    nodesBefore |-> Len(nodes), changed |-> TRUE,
                     simpleBefore |-> Simple(Graph(nodes, edges)),
                     uniqueBefore |-> Unique(Graph(nodes, edges))]
        /\ UNCHANGED <<edges, fetchVars, pageVars, configVars, appVars>>

\* graph.try_expand_node(index), also for an index past the last node
TryExpandNode ==
    \E index \in 1..(Len(nodes) + 1) :
        LET out == try_expand_node(Graph(nodes, edges), index)
        IN  /\ nodes' = out.graph.nodes
            /\ edges' = out.graph.edges
            /\ last' = [op |-> "try_expand_node", index |-> index,
                        result |-> out.result,
                        again |-> /\ last.op = "try_expand_node"
                                  /\ last.index = index
                                  /\ IsSome(last.result),
                        nodesBefore |-> Len(nodes),
                        changed |-> out.graph # Graph(nodes, edges),
                        simpleBefore |-> Simple(Graph(nodes, edges)),
                        uniqueBefore |-> Unique(Graph(nodes, edges))]
            /\ UNCHANGED <<fetchVars, pageVars, configVars, appVars>>

\* The code generator before it has run, on an empty site matrix
CodegenIdle ==
    codegen = [site_matrix |-> <<>>, languages |-> None, lookup |-> None]

\* Duration::from_secs(5), in milliseconds
WaitTimeMillis == 5000

\* Duration::from_mins(1), in milliseconds
WaitMaxMillis == 60000

\* InternetStatus::unavailable at the time now; the error it holds is
\* HttpError::PageNotFound
InternetStatus_unavailable(now) ==
    [tag |-> "Unavailable", wait_time |-> WaitTimeMillis, last_retry |-> now,
     wait_max |-> WaitMaxMillis, error |-> "PageNotFound", waiting |-> FALSE]

\* The application as build() leaves it: the status, an empty test store,
\* no test under way, no frame rendered yet
NetIdle ==
    net = [status |-> InternetStatus_unavailable(0), store |-> None,
           tests |-> 0, now |-> 0, panicked |-> FALSE,
           frame |-> [arm |-> "none", elapsed |-> 0, wait_time |-> 0,
                      retried |-> FALSE, polled |-> FALSE]]

\* The most completions that are followed through the queue
MaxFetches == 2

\* WikipediaGraphApp right after WikipediaGraphAppBuilder::build, before the
\* first node: graph is the StableGraph's slots and edges, free its list of
\* vacated indices, node_stores the queue of completions and lock the holder
\* of its mutex; batch, tick, handled, missed and last follow the drains
AppIdle ==
    app = [stable |-> [graph |-> [nodes |-> <<>>, edges |-> <<>>],
                       free |-> <<>>, next_id |-> 1, indicies |-> <<>>],
           edits |-> 0, fetches |-> {}, next_fetch |-> 1,
           node_stores |-> <<>>, lock |-> "free", pushing |-> <<>>,
           ui |-> "idle", batch |-> <<>>, tick |-> <<>>,
           handled |-> [c \in 1..MaxFetches |-> 0], missed |-> {},
           last |-> [op |-> "user", entry |-> <<>>,
                     graph |-> [nodes |-> <<>>, edges |-> <<>>],
                     node_stores |-> <<>>]]

FetchIdle ==
    /\ timeout = None
    /\ script = <<>>
    /\ req = [e \in Envs |-> NewRequest(English)]
    /\ ConfigIdle
    /\ CodegenIdle
    /\ NetIdle
    /\ AppIdle

InitGraph ==
    /\ FetchIdle
    /\ GraphIdle
    /\ PageIdle

NextGraph ==
    \/ AddNode
    \/ SetPageBody
    \/ TryExpandNode

SpecGraph == InitGraph /\ [][NextGraph]_vars

\* The first position from position from on where text has char, 0 if none
IndexOf(text, char, from) ==
    LET at == {i \in from..Len(text) : text[i] = char}
    IN  IF at = {} THEN 0 ELSE CHOOSE i \in at : \A j \in at : i <= j

\* The last position where text has char, 0 if none
LastIndexOf(text, char) ==
    LET at == {i \in 1..Len(text) : text[i] = char}
    IN  IF at = {} THEN 0 ELSE CHOOSE i \in at : \A j \in at : i >= j

\* str::ends_with
EndsWith(s, suffix) ==
    /\ Len(suffix) <= Len(s)
    /\ SubSeq(s, Len(s) - Len(suffix) + 1, Len(s)) = suffix

\* text from position from to its end
From(text, from) == SubSeq(text, from, Len(text))

(***************************************************************************)
(* The url crate, for URLs without port, userinfo, fragment, dot segments  *)
(* and characters that are percent-encoded                                 *)
(***************************************************************************)

\* A Url; host is absent in a URL that cannot be a base (scheme:opaque-path)
Url(scheme, host, path, query) ==
    [scheme |-> scheme, host |-> host, path |-> path, query |-> query]

\* The input starts with a scheme: a letter, then letters, digits, + - .
\* up to a colon
HasScheme(input) ==
    LET colon == IndexOf(input, ":", 1)
    IN  /\ colon > 1
        /\ to_lowercase(input[1]) \in {LowerCase[i] : i \in 1..Len(LowerCase)}
        /\ \A i \in 2..(colon - 1) :
               \/ to_lowercase(input[i]) \in {LowerCase[k] : k \in 1..Len(LowerCase)}
               \/ input[i] \in Digits \cup {"+", "-", "."}

\* The path and the query of what follows the authority
PathAndQuery(text) ==
    LET mark == IndexOf(text, "?", 1)
    IN  IF mark = 0
        THEN [path |-> text, query |-> None]
        ELSE [path |-> SubSeq(text, 1, mark - 1), query |-> Some(From(text, mark + 1))]

\* Url::parse of a text that starts with a scheme
Url_parse(text) ==
    LET colon == IndexOf(text, ":", 1)
        scheme == [i \in 1..(colon - 1) |-> to_lowercase(text[i])]
        rest == From(text, colon + 1)
    IN  IF IsAt(rest, 1, <<"/", "/">>)
        THEN LET slash == IndexOf(rest, "/", 3)
                 host == IF slash = 0 THEN From(rest, 3) ELSE SubSeq(rest, 3, slash - 1)
                 after == IF slash = 0 THEN <<"/">> ELSE From(rest, slash)
             IN  Url(scheme, Some(host), PathAndQuery(after).path,
                     PathAndQuery(after).query)
        ELSE Url(scheme, None, rest, None)

\* Url::join: an input with a scheme is a URL of its own; one that starts
\* with a slash replaces the path; any other replaces the last segment
Url_join(base, input) ==
    IF HasScheme(input)
    THEN Url_parse(input)
    ELSE IF IsAt(input, 1, <<"/">>)
    THEN Url(base.scheme, base.host, PathAndQuery(input).path,
             PathAndQuery(input).query)
    ELSE LET dir == SubSeq(base.path, 1, LastIndexOf(base.path, "/"))
         IN  Url(base.scheme, base.host, dir \o PathAndQuery(input).path,
                 PathAndQuery(input).query)

\* Url::set_query
Url_set_query(url, query) == [url EXCEPT !.query = Some(query)]

\* The first of Url::path_segments
FirstSegment(url) ==
    LET slash == IndexOf(url.path, "/", 2)
    IN  IF slash = 0 THEN From(url.path, 2) ELSE SubSeq(url.path, 2, slash - 1)

\* The last of Url::path_segments
LastSegment(url) == From(url.path, LastIndexOf(url.path, "/") + 1)

\* Url::make_relative from the base origin/wiki/ to a url of that origin
\* whose first segment is wiki
make_relative(url) ==
    LET query == IF IsSome(url.query) THEN <<"?">> \o Unwrap(url.query) ELSE <<>>
    IN  IF IsAt(url.path, 1, <<"/", "w", "i", "k", "i", "/">>)
        THEN From(url.path, 7) \o query
        ELSE <<".", ".", "/", "w", "i", "k", "i">> \o query

(***************************************************************************)
(* Languages and URLs                                                      *)
(***************************************************************************)

\* WikiLanguage values: two with a code for their Wikipedia and one whose
\* sites gave none
Languages ==
    {English,
     [name |-> "German", wiki |-> Some(<<"d", "e">>)],
     [name |-> "Classical Chinese", wiki |-> None]}

\* WikiLanguage::as_code_wiki: the match on self, with _ => None
as_code_wiki(language) == language.wiki

\* "https://"
HttpsPrefix == <<"h", "t", "t", "p", "s", ":", "/", "/">>

\* ".wikipedia.org"
WikipediaDomain == <<".", "w", "i", "k", "i", "p", "e", "d", "i", "a", ".", "o", "r", "g">>

\* The query of the wikitext API before the pathinfo
RawApiQuery ==
    <<"o", "r", "i", "g", "i", "n", "=", "*", "&", "a", "c", "t",
      "i", "o", "n", "=", "p", "a", "r", "s", "e", "&", "p", "r",
      "o", "p", "=", "w", "i", "k", "i", "t", "e", "x", "t", "&",
      "f", "o", "r", "m", "a", "t", "=", "j", "s", "o", "n", "&",
      "p", "a", "g", "e", "=">>

\* The query of the links API before the pathinfo
LinksApiQuery ==
    <<"a", "c", "t", "i", "o", "n", "=", "q", "u", "e", "r", "y",
      "&", "f", "o", "r", "m", "a", "t", "=", "j", "s", "o", "n",
      "&", "p", "r", "o", "p", "=", "l", "i", "n", "k", "s", "&",
      "p", "l", "l", "i", "m", "i", "t", "=", "5", "0", "0", "&",
      "o", "r", "i", "g", "i", "n", "=", "*", "&", "t", "i", "t",
      "l", "e", "s", "=">>

\* WikipediaUrlType::base_url: Err(LanguageInvalidError) is None
base_url(url_type, language) ==
    IF ~IsSome(as_code_wiki(language))
    THEN None
    ELSE LET origin == HttpsPrefix \o Unwrap(as_code_wiki(language)) \o WikipediaDomain
         IN  IF url_type = "Basic"
             THEN Some(Url_parse(origin \o <<"/", "w", "i", "k", "i", "/">>))
             ELSE Some(Url_parse(origin \o <<"/", "w", "/", "a", "p", "i", ".", "p", "h", "p">>))

\* WikipediaUrlType::url_with
url_with(url_type, language, pathinfo) ==
    LET base == base_url(url_type, language)
    IN  IF ~IsSome(base)
        THEN None
        ELSE IF url_type = "Basic"
        THEN Some(Url_join(Unwrap(base), pathinfo))
        ELSE IF url_type = "RawApi"
        THEN Some(Url_set_query(Unwrap(base), RawApiQuery \o pathinfo))
        ELSE Some(Url_set_query(Unwrap(base), LinksApiQuery \o pathinfo))

\* verify_url: Ok or the WikipediaUrlError
verify_url(url) ==
    LET host_str == IF IsSome(url.host) THEN Unwrap(url.host) ELSE <<>>
    IN  IF \/ ~EndsWith(host_str, <<"w", "i", "k", "i", "p", "e", "d", "i", "a", ".", "o", "r", "g">>)
           \/ url.scheme \notin {<<"h", "t", "t", "p">>, <<"h", "t", "t", "p", "s">>}
        THEN "InvalidHost"
        ELSE IF ~IsSome(url.host) \/ FirstSegment(url) # <<"w", "i", "k", "i">>
        THEN "InvalidPath"
        ELSE "Ok"

\* Result<WikipediaPage, WikipediaUrlError>
PageOk(page) == [tag |-> "Ok", page |-> Some(page)]

PageErr(error) == [tag |-> error, page |-> None]

\* "https://wikipedia.org/wiki/"
WikiBase == <<"h", "t", "t", "p", "s", ":", "/", "/", "w", "i", "k", "i", "p", "e", "d", "i", "a", ".", "o", "r", "g", "/", "w", "i", "k", "i", "/">>

\* WikipediaPage::try_from_path
try_from_path(path) ==
    LET joined == Url_join(Url_parse(WikiBase), path)
    IN  IF verify_url(joined) # "Ok"
        THEN PageErr(verify_url(joined))
        ELSE PageOk(from_title(LastSegment(joined)))

\* WikipediaPage::try_from_url
try_from_url(url) ==
    IF verify_url(url) # "Ok"
    THEN PageErr(verify_url(url))
    ELSE PageOk([pathinfo |-> make_relative(url), body |-> None])

(***************************************************************************)
(* The functions of the page module that take no page: deserialisation by  *)
(* URL type, the URLs, the constructors of a page                          *)
(***************************************************************************)

\* The record of a call op(arg) that returned out
Called(op, arg, out) ==
    [op |-> op, pathinfoBefore |-> self.pathinfo, data |-> None,
     linked |-> None, loads |-> selfLast.loads, arg |-> arg, out |-> out]

\* The longest text handed to the deserialiser
MaxText == 3

\* Texts to deserialise: of the texts over these characters "{}" alone is
\* JSON
JsonChars == {"{", "}", "x"}

JsonTexts == UNION {[1..n -> JsonChars] : n \in 0..MaxText}

\* serde_json::from_str::<Value>: the value, an object without keys, or an
\* error for a text that is not JSON
from_str(text) ==
    IF text = <<"{", "}">> THEN Some("{}") ELSE None

\* enum WikipediaUrlType
UrlTypes == {"Basic", "RawApi", "LinksApi"}

\* A deserialisation that takes a Basic response for a links response
from_url_type_lenient(url_type, body) ==
    IF url_type = "RawApi"
    THEN IF IsSome(from_str(body)) THEN Some(WikiTextBody(None, None)) ELSE None
    ELSE IF IsSome(from_str(body)) THEN Some(LinksBody(None, None)) ELSE None

\* WikipediaBody::from_url_type: Ok(body) or Err(serde_json::Error); the
\* object without keys makes a body without title and without links
from_url_type(url_type, body) ==
    IF url_type = "LinksApi"
    THEN IF IsSome(from_str(body)) THEN Some(LinksBody(None, None)) ELSE None
    ELSE IF url_type = "RawApi"
    THEN IF IsSome(from_str(body)) THEN Some(WikiTextBody(None, None)) ELSE None
    ELSE None

\* Titles in pathinfo form (no spaces), with ':', '/' and '*' among them
PathinfoPool ==
    {<<"a">>, <<"b", "_", "c">>, <<"S", ":", "r">>, <<"a", "/", "b">>, <<"a", "*">>}

\* url_type.url_with(language, &pathinfo)
UrlWith ==
    /\ \E url_type \in UrlTypes, language \in Languages, pathinfo \in PathinfoPool :
         selfLast' = Called("url_with", <<url_type, language, pathinfo>>,
                            url_with(url_type, language, pathinfo))
    /\ UNCHANGED <<self, fetchVars, graphVars, configVars, appVars>>

\* The three constructors of a page for one title, as in page_creation
PageCreation ==
    /\ \E page_title \in PathinfoPool :
         selfLast' = Called("page_creation", page_title,
             [from_title |-> from_title(page_title),
              try_from_path |->
                  try_from_path(<<"/", "w", "i", "k", "i", "/">> \o page_title),
              try_from_url |->
                  try_from_url(Url_parse(WikiBase \o page_title))])
    /\ UNCHANGED <<self, fetchVars, graphVars, configVars, appVars>>

\* WikipediaBody::from_url_type(url_type, body)
FromUrlType ==
    /\ \E url_type \in UrlTypes, body \in JsonTexts :
         selfLast' = Called("from_url_type", <<url_type, body>>,
                            from_url_type(url_type, body))
    /\ UNCHANGED <<self, fetchVars, graphVars, configVars, appVars>>

InitUrl ==
    /\ FetchIdle
    /\ GraphIdle
    /\ PageIdle

NextUrl ==
    \/ FromUrlType
    \/ UrlWith
    \/ PageCreation

SpecUrl == InitUrl /\ [][NextUrl]_vars

(***************************************************************************)
(* The entry of a fetch: WikipediaClient::get_callback builds the request  *)
(* and hands it to get_request                                             *)
(***************************************************************************)

\* A request builder that falls back to the English domain
request_from_pathinfo_unchecked(language, pathinfo, url_type) ==
    IF IsSome(url_with(url_type, language, pathinfo))
    THEN url_with(url_type, language, pathinfo)
    ELSE url_with(url_type, English, pathinfo)

\* WikipediaClient::request_from_pathinfo: the request's URL, None for
\* Err(LanguageInvalidError); the headers copied into the request play no
\* part in the fetch
request_from_pathinfo(language, pathinfo, url_type) ==
    url_with(url_type, language, pathinfo)

\* get_callback up to its call of get_request: `?` returns the error of
\* request_from_pathinfo to the caller
GetCallback(e) ==
    LET r == req[e]
        request == request_from_pathinfo(r.language, self.pathinfo, ClientUrlType)
    IN  /\ r.pc = "start"
        /\ req' = [req EXCEPT ![e] =
               IF IsSome(request)
               THEN [r EXCEPT !.pc = "loop"]
               ELSE [r EXCEPT !.pc = "refused",
                              !.outcome = Some(ErrLanguageInvalid)]]
        /\ UNCHANGED <<timeout, script, graphVars, pageVars, configVars, appVars>>

InitFetch ==
    /\ timeout \in Timeouts
    /\ script = <<>>
    /\ \E language \in Languages : req = [e \in Envs |-> NewRequest(language)]
    /\ ConfigIdle
    /\ CodegenIdle
    /\ NetIdle
    /\ AppIdle
    /\ GraphIdle
    /\ PageIdle

NextFetch ==
    \E e \in Envs :
        \/ GetCallback(e)
        \/ Issue(e)
        \/ Exhausted(e)
        \/ Complete(e)
        \/ Receive(e)
        \/ TimedOut(e)
        \/ Tick(e)

SpecFetch == InitFetch /\ [][NextFetch]_vars

\* url_encor::decode for the escapes %20, %2A and %5F; any other
\* character stands for itself
RECURSIVE url_decode(_)
url_decode(text) ==
    IF text = <<>>
    THEN <<>>
    ELSE IF IsAt(text, 1, <<"%", "2", "0">>)
    THEN <<" ">> \o url_decode(From(text, 4))
    ELSE IF IsAt(text, 1, <<"%", "2", "A">>)
    THEN <<"*">> \o url_decode(From(text, 4))
    ELSE IF IsAt(text, 1, <<"%", "5", "F">>)
    THEN <<"_">> \o url_decode(From(text, 4))
    ELSE <<text[1]>> \o url_decode(Tail(text))

\* str::trim, a space being the whitespace of the model
RECURSIVE trim(_)
trim(text) ==
    IF text = <<>>
    THEN <<>>
    ELSE IF text[1] = " "
    THEN trim(Tail(text))
    ELSE IF text[Len(text)] = " "
    THEN trim(SubSeq(text, 1, Len(text) - 1))
    ELSE text

\* The map closure of capitalize over the characters left, with its flag
RECURSIVE CapitalizeChars(_, _)
CapitalizeChars(chars, capitialize) ==
    IF chars = <<>>
    THEN <<>>
    ELSE LET char == chars[1]
             is_whitespace == char = " "
         IN  IF is_whitespace /\ capitialize
             THEN <<"*">> \o CapitalizeChars(Tail(chars), TRUE)
             ELSE IF ~is_whitespace /\ capitialize
             THEN <<to_uppercase(char)>> \o CapitalizeChars(Tail(chars), FALSE)
             ELSE IF is_whitespace /\ ~capitialize
             THEN <<char>> \o CapitalizeChars(Tail(chars), TRUE)
             ELSE <<char>> \o CapitalizeChars(Tail(chars), FALSE)

\* str::replace(char, "")
RECURSIVE RemoveChar(_, _)
RemoveChar(text, char) ==
    IF text = <<>>
    THEN <<>>
    ELSE IF text[1] = char
    THEN RemoveChar(Tail(text), char)
    ELSE <<text[1]>> \o RemoveChar(Tail(text), char)

\* capitalize
capitalize(input) ==
    RemoveChar(CapitalizeChars(ReplaceChar(trim(input), "_", " "), TRUE), "*")

\* WikipediaPage::title
title(page) == capitalize(url_decode(ReplaceChar(page.pathinfo, "_", " ")))

\* WikipediaPage::is_page_text_loaded
is_page_text_loaded(page) == IsSome(page.body)

\* An unload_body that also forgets the pathinfo
unload_body_resetting(page) == [pathinfo |-> <<>>, body |-> None]

\* WikipediaPage::unload_body
unload_body(page) == [page EXCEPT !.body = None]

\* WikipediaPage::with_body
with_body(page, body) == [page EXCEPT !.body = Some(body)]

\* What load_page_text hands to its callback for the response of the
\* client, a body or an error (None)
load_page_text(page, response) ==
    IF IsSome(response)
    THEN Some(with_body(from_title(title(page)), Unwrap(response)))
    ELSE None

(***************************************************************************)
(* One page on its own: bodies of both kinds attached to it, its linked    *)
(* pages read                                                              *)
(***************************************************************************)

\* The most pieces a wikitext is put together from
MaxPieces == 2

\* The entries of a links array: {"title": ...}, or an entry without title
LinkEntries == {None} \cup {Some(t) : t \in TitlePool \cup FILTERED_PAGES}

PageLinkLists == UNION {[1..n -> LinkEntries] : n \in 0..MaxLinks}

\* Pieces of wikitext: [[a]], [[a|Wayback Machine]], [[Wayback Machine]],
\* and [[a|]], which is no link
TextPieces ==
    {<<"[", "[", "a", "]", "]">>,
     <<"[", "[", "a", "|", "W", "a", "y", "b", "a", "c", "k", " ", "M", "a", "c", "h", "i", "n", "e", "]", "]">>,
     <<"[", "[", "W", "a", "y", "b", "a", "c", "k", " ", "M", "a", "c", "h", "i", "n", "e", "]", "]">>,
     <<"[", "[", "a", "|", "]", "]">>}

RECURSIVE Texts(_)
Texts(n) ==
    IF n = 0
    THEN {<<>>}
    ELSE Texts(n - 1) \cup {t \o piece : t \in Texts(n - 1), piece \in TextPieces}

\* The titles a body may carry, or none
BodyTitles == {None} \cup {Some(t) : t \in TitlePool}

Bodies ==
    {LinksBody(body_title, links) :
        body_title \in BodyTitles,
        links \in {None} \cup {Some(l) : l \in PageLinkLists}}
    \cup {WikiTextBody(body_title, wikitext) :
        body_title \in BodyTitles,
        wikitext \in {None} \cup {Some(t) : t \in Texts(MaxPieces)}}

\* page.set_page_body(data)
PageSetBody ==
    /\ selfLast.loads < MaxLoads
    /\ \E data \in Bodies :
         /\ self' = set_page_body(self, data)
         /\ selfLast' = [op |-> "set_page_body", pathinfoBefore |-> self.pathinfo,
                         data |-> Some(data), linked |-> None,
                         loads |-> selfLast.loads + 1, arg |-> None, out |-> None]
    /\ UNCHANGED <<fetchVars, graphVars, configVars, appVars>>

\* page.try_get_linked_pages(), the iterator collected
PageLinkedPages ==
    /\ selfLast' = [op |-> "try_get_linked_pages", pathinfoBefore |-> self.pathinfo,
                    data |-> None, linked |-> try_get_linked_pages(self),
                    loads |-> selfLast.loads, arg |-> None, out |-> None]
    /\ UNCHANGED <<self, fetchVars, graphVars, configVars, appVars>>

\* page.title()
PageTitle ==
    /\ selfLast' = Called("title", None, title(self))
    /\ UNCHANGED <<self, fetchVars, graphVars, configVars, appVars>>

\* page.unload_body(); arg tells whether a body was loaded
PageUnloadBody ==
    /\ self' = unload_body(self)
    /\ selfLast' = Called("unload_body", is_page_text_loaded(self), None)
    /\ UNCHANGED <<fetchVars, graphVars, configVars, appVars>>

\* The bodies a response of the client is deserialised to
FetchedBodies ==
    {LinksBody(Some(<<"a">>), Some(<<Some(<<"a">>)>>)),
     WikiTextBody(None, Some(<<"[", "[", "a", "]", "]">>))}

\* page.load_page_text(client, callback): out is what the callback is given
PageLoadPageText ==
    /\ \E response \in {None} \cup {Some(body) : body \in FetchedBodies} :
         selfLast' = Called("load_page_text", response,
                            load_page_text(self, response))
    /\ UNCHANGED <<self, fetchVars, graphVars, configVars, appVars>>

\* Titles of the pages to start from
PageTitles == TitlePool \cup {<<"a", "*">>}

InitPage ==
    /\ FetchIdle
    /\ GraphIdle
    /\ self \in {from_title(page_title) : page_title \in PageTitles}
    /\ selfLast = [op |-> "none", pathinfoBefore |-> self.pathinfo,
                   data |-> None, linked |-> None, loads |-> 0,
                   arg |-> None, out |-> None]

NextPage ==
    \/ PageSetBody
    \/ PageLinkedPages
    \/ PageTitle
    \/ PageUnloadBody
    \/ PageLoadPageText

SpecPage == InitPage /\ [][NextPage]_vars

(***************************************************************************)
(* A configuration built step by step                                      *)
(***************************************************************************)

\* Header names a caller passes
NamePool ==
    {header_USER_AGENT,
     <<"U", "s", "e", "r", "-", "A", "g", "e", "n", "t">>,
     <<"o", "r", "i", "g", "i", "n">>,
     <<"n", "o", " ", "n", "a", "m", "e">>}

\* Header values a caller passes
ValuePool == {<<"v1">>, <<"v2">>, <<"v", "\n">>}

\* What a call returning Result<Self, HeaderError> leaves: the
\* configuration it returned, or on an error the one it was called on
Configured(result) ==
    IF IsSome(result.config) THEN Unwrap(result.config) ELSE config

\* The call, the header set it found and what it returned
ConfigCall(op, name, value, result) ==
    [op |-> op, name |-> name, value |-> value,
     headersBefore |-> config.headers, tag |-> result.tag]

AddHeader ==
    \E name \in NamePool, value \in ValuePool :
        LET result == add_header(config, name, value)
        IN  /\ config' = Configured(result)
            /\ configLast' = ConfigCall("add_header", name, value, result)
            /\ UNCHANGED <<fetchVars, graphVars, pageVars, appVars>>

UserAgent ==
    \E agent \in ValuePool :
        LET result == user_agent(config, agent)
        IN  /\ config' = Configured(result)
            /\ configLast' = ConfigCall("user_agent", header_USER_AGENT,
                                        agent, result)
            /\ UNCHANGED <<fetchVars, graphVars, pageVars, appVars>>

SetTimeout ==
    \E duration \in Timeouts :
        LET result == ConfigOk(config_timeout(config, duration))
        IN  /\ config' = Configured(result)
            /\ configLast' = ConfigCall("timeout", <<>>, <<>>, result)
            /\ UNCHANGED <<fetchVars, graphVars, pageVars, appVars>>

SetLanguage ==
    \E language \in Languages :
        LET result == ConfigOk(config_language(config, language))
        IN  /\ config' = Configured(result)
            /\ configLast' = ConfigCall("language", <<>>, <<>>, result)
            /\ UNCHANGED <<fetchVars, graphVars, pageVars, appVars>>

\* WikipediaGraphAppBuilder::default: a new configuration replaces config
BuilderDefault ==
    /\ config' = Configured(builder_client_config)
    /\ configLast' = [op |-> "builder_default", name |-> header_USER_AGENT,
                      value |-> egui_USER_AGENT,
                      headersBefore |-> default_config.headers,
                      tag |-> builder_client_config.tag]
    /\ UNCHANGED <<fetchVars, graphVars, pageVars, appVars>>

InitConfig ==
    /\ FetchIdle
    /\ GraphIdle
    /\ PageIdle

NextConfig ==
    \/ AddHeader
    \/ UserAgent
    \/ SetTimeout
    \/ SetLanguage
    \/ BuilderDefault

SpecConfig == InitConfig /\ [][NextConfig]_vars

(***************************************************************************)
(* The language code generator (wikimedia-language-codegen)                *)
(***************************************************************************)

\* The most entries of a site matrix
MaxEntries == 2

\* WikimediaCode::from_str: the site codes it knows
WikimediaCode_from_str(str) ==
    IF str \in {"wiki", "wiktionary", "wikinews", "wikiquote", "wikisource",
                "wikiversity", "wikivoyage"}
    THEN Some(str)
    ELSE None

\* The last position of the run of [a-z] that starts at i, i - 1 if none
RECURSIVE LowerRunEnd(_, _)
LowerRunEnd(text, i) ==
    IF i <= Len(text) /\ \E k \in 1..Len(LowerCase) : LowerCase[k] = text[i]
    THEN LowerRunEnd(text, i + 1)
    ELSE i - 1

\* code_from_url_regex.captures(url), the first group of
\* https://([a-z]*)\..+ for a url that has "https://" at its start only
code_from_url(url) ==
    IF ~IsAt(url, 1, HttpsPrefix)
    THEN None
    ELSE LET end == LowerRunEnd(url, Len(HttpsPrefix) + 1)
         IN  IF end + 2 <= Len(url) /\ url[end + 1] = "."
             THEN Some(SubSeq(url, Len(HttpsPrefix) + 1, end))
             ELSE None

\* codes.get(wiki_code) after the for_each over the sites: the captured
\* code of the last site of that kind whose url the regex matched
codes_get(sites, wiki_code) ==
    LET kept == {k \in 1..Len(sites) :
                    /\ IsSome(code_from_url(sites[k].url))
                    /\ WikimediaCode_from_str(sites[k].code) = Some(wiki_code)}
    IN  IF kept = {}
        THEN None
        ELSE code_from_url(sites[CHOOSE k \in kept : \A j \in kept : j <= k].url)

\* title.parse::<u64>().is_ok()
IsNumber(key) ==
    key # <<>> /\ \A k \in 1..Len(key) : key[k] \in Digits

\* The filter_map closure of languages_from_sitematrix for one entry
LanguageKept(entry) ==
    /\ IsNumber(entry.title)
    /\ IsSome(entry.site)
    /\ IsSome(entry.code)
    /\ IsSome(entry.name)
    /\ IsSome(entry.localname)

\* LanguageData::new
LanguageData(entry) ==
    [universal_code |-> Unwrap(entry.code), name |-> Unwrap(entry.name),
     local_name |-> Unwrap(entry.localname), sites |-> Unwrap(entry.site)]

\* languages_from_sitematrix
languages_from_sitematrix(site_matrix) ==
    LET kept == SelectSeq(site_matrix, LanguageKept)
    IN  [k \in 1..Len(kept) |-> LanguageData(kept[k])]

\* The first map of languages_as_enum_code: a local name seen before gets
\* "_" and the universal code appended
RenamedLocalName(languages, k) ==
    IF \E j \in 1..(k - 1) : languages[j].local_name = languages[k].local_name
    THEN languages[k].local_name \o <<"_">> \o languages[k].universal_code
    ELSE languages[k].local_name

\* languages_as_enum_code: one variant per language, and as_code_wiki with
\* an arm for every language that has the code and `_ => None`
languages_as_enum_code(languages) ==
    [k \in 1..Len(languages) |->
        [name |-> RenamedLocalName(languages, k),
         wiki |-> codes_get(languages[k].sites, "wiki")]]

\* An entry of the site matrix
MatrixEntry(key, code, localname, site) ==
    [title |-> key, code |-> Some(code), name |-> Some(localname),
     localname |-> Some(localname), site |-> site]

\* Entries of the site matrix: a language with a Wikipedia, one whose
\* Wikipedia has a hyphen in its domain, one with a Wiktionary only, one
\* without sites, one without the site key, and the key "count"
EntryPool ==
    {MatrixEntry(<<"0">>, <<"e", "n">>, <<"English">>,
         Some(<<[url |-> <<"h", "t", "t", "p", "s", ":", "/", "/", "e", "n", ".", "w", "i", "k", "i", "p", "e", "d", "i", "a", ".", "o", "r", "g">>, code |-> "wiki"],
                [url |-> <<"h", "t", "t", "p", "s", ":", "/", "/", "e", "n", ".", "w", "i", "k", "t", "i", "o", "n", "a", "r", "y", ".", "o", "r", "g">>, code |-> "wiktionary"]>>)),
     MatrixEntry(<<"1">>, <<"l", "z", "h">>, <<"Classical Chinese">>,
         Some(<<[url |-> <<"h", "t", "t", "p", "s", ":", "/", "/", "z", "h", "-", "c", "l", "a", "s", "s", "i", "c", "a", "l", ".", "w", "i", "k", "i", "p", "e", "d", "i", "a", ".", "o", "r", "g">>, code |-> "wiki"]>>)),
     MatrixEntry(<<"2">>, <<"a", "a">>, <<"Afar">>,
         Some(<<[url |-> <<"h", "t", "t", "p", "s", ":", "/", "/", "a", "a", ".", "w", "i", "k", "t", "i", "o", "n", "a", "r", "y", ".", "o", "r", "g">>, code |-> "wiktionary"]>>)),
     MatrixEntry(<<"3">>, <<"x", "x">>, <<"English">>, Some(<<>>)),
     MatrixEntry(<<"4">>, <<"d", "e">>, <<"German">>, None),
     MatrixEntry(<<"c", "o", "u", "n", "t">>, <<"e", "n">>, <<"English">>,
         Some(<<[url |-> <<"h", "t", "t", "p", "s", ":", "/", "/", "e", "n", ".", "w", "i", "k", "i", "p", "e", "d", "i", "a", ".", "o", "r", "g">>, code |-> "wiki"]>>))}

\* The position of an entry's key in the order of the object's keys
KeyOrder(entry) ==
    IF IsNumber(entry.title)
    THEN CHOOSE d \in 0..9 : ToString(d) = entry.title[1]
    ELSE 10

\* Site matrices: entries with different keys, in the order of the keys
SiteMatrices ==
    {m \in UNION {[1..n -> EntryPool] : n \in 0..MaxEntries} :
        \A j, k \in 1..Len(m) : j < k => KeyOrder(m[j]) < KeyOrder(m[k])}

\* The generator runs: languages_as_enum_code(languages_from_sitematrix(..))
Generate ==
    /\ codegen.languages = None
    /\ codegen' = [codegen EXCEPT !.languages =
           Some(languages_as_enum_code(
                    languages_from_sitematrix(codegen.site_matrix)))]
    /\ UNCHANGED <<fetchVars, graphVars, pageVars, configVars, net, app>>

\* base_url is called for a language of the table
BaseUrl ==
    /\ IsSome(codegen.languages)
    /\ \E k \in 1..Len(Unwrap(codegen.languages)), url_type \in UrlTypes :
           LET language == Unwrap(codegen.languages)[k]
           IN  codegen' = [codegen EXCEPT !.lookup =
                   Some([language |-> language, url_type |-> url_type,
                         url |-> base_url(url_type, language)])]
    /\ UNCHANGED <<fetchVars, graphVars, pageVars, configVars, net, app>>

InitCodegen ==
    /\ timeout = None
    /\ script = <<>>
    /\ req = [e \in Envs |-> NewRequest(English)]
    /\ ConfigIdle
    /\ NetIdle
    /\ AppIdle
    /\ GraphIdle
    /\ PageIdle
    /\ \E m \in SiteMatrices :
           codegen = [site_matrix |-> m, languages |-> None, lookup |-> None]

NextCodegen ==
    \/ Generate
    \/ BaseUrl

SpecCodegen == InitCodegen /\ [][NextCodegen]_vars

(***************************************************************************)
(* The connection status of the application (InternetStatus)               *)
(***************************************************************************)

\* The time that passes in one step of the clock, in milliseconds
TickMillis == 2500

\* The most steps of the clock
MaxTicks == 4

\* The most connectivity tests under way at one time
MaxTests == 2

\* Instant::now().duration_since(earlier), which saturates at zero
duration_since(now, earlier) == IF now >= earlier THEN now - earlier ELSE 0

\* InternetStatusInner::set_waiting
set_waiting(status) ==
    IF status.tag = "Unavailable"
    THEN [status EXCEPT !.waiting = TRUE]
    ELSE status

\* InternetStatusInner::reset_unavailable at the time now
reset_unavailable(status, new_error, now) ==
    IF status.tag = "Unavailable"
    THEN [status EXCEPT
             !.error = new_error,
             !.last_retry = now,
             !.wait_time = IF 3 * status.wait_time < 2 * status.wait_max
                           THEN (3 * status.wait_time) \div 2
                           ELSE status.wait_max]
    ELSE status

\* InternetStatusInner::Available
Available ==
    [tag |-> "Available", wait_time |-> 0, last_retry |-> 0, wait_max |-> 0,
     error |-> "", waiting |-> FALSE]

\* InternetStatus::test_internet: a test is started and waiting is set
test_internet(n) ==
    [n EXCEPT !.tests = n.tests + 1, !.status = set_waiting(n.status)]

\* InternetStatus::update; locked: try_lock finds the store locked
update(n, locked) ==
    IF n.status.tag = "Available"
    THEN n
    ELSE IF duration_since(n.now, n.status.last_retry) > n.status.wait_time
    THEN [test_internet(n) EXCEPT !.frame.retried = TRUE]
    ELSE IF n.status.waiting /\ ~locked /\ IsSome(n.store)
    THEN [n EXCEPT !.store = None,
                   !.frame.polled = TRUE,
                   !.status = IF Unwrap(n.store) = "Ok"
                              THEN Available
                              ELSE reset_unavailable(n.status, Unwrap(n.store),
                                                     n.now)]
    ELSE n

\* The match in App::update after the status was updated: the Unavailable
\* arm subtracts the elapsed time from wait_time, which panics when more
\* has elapsed, and starts a test when "Test Now" was clicked
render(n, clicked) ==
    IF n.status.tag = "Available"
    THEN [n EXCEPT !.frame.arm = "Available"]
    ELSE LET elapsed == duration_since(n.now, n.status.last_retry)
             shown == [n EXCEPT !.frame.arm = "Unavailable",
                                !.frame.elapsed = elapsed,
                                !.frame.wait_time = n.status.wait_time]
         IN  IF elapsed > n.status.wait_time
             THEN [shown EXCEPT !.panicked = TRUE]
             ELSE IF clicked
             THEN test_internet(shown)
             ELSE shown

NoFrame ==
    [arm |-> "none", elapsed |-> 0, wait_time |-> 0, retried |-> FALSE,
     polled |-> FALSE]

\* App::update renders one frame
Frame ==
    /\ ~net.panicked
    /\ \E clicked \in BOOLEAN, locked \in BOOLEAN :
           LET rendered == render(update([net EXCEPT !.frame = NoFrame], locked),
                                  clicked)
           IN  /\ rendered.tests <= MaxTests
               /\ net' = rendered
    /\ UNCHANGED <<fetchVars, graphVars, pageVars, configVars, codegen, app>>

\* The closure of store_callback runs with the result of a test
TestCompletes(result) ==
    /\ ~net.panicked
    /\ net.tests > 0
    /\ net' = [net EXCEPT !.tests = net.tests - 1, !.store = Some(result)]
    /\ UNCHANGED <<fetchVars, graphVars, pageVars, configVars, codegen, app>>

\* Time passes
TimePasses ==
    /\ ~net.panicked
    /\ net.now < MaxTicks * TickMillis
    /\ net' = [net EXCEPT !.now = net.now + TickMillis]
    /\ UNCHANGED <<fetchVars, graphVars, pageVars, configVars, codegen, app>>

InitStatus ==
    /\ FetchIdle
    /\ GraphIdle
    /\ PageIdle

NextStatus ==
    \/ Frame
    \/ TestCompletes("Ok")
    \/ TestCompletes("Timeout")
    \/ TimePasses

SpecStatus == InitStatus /\ [][NextStatus]_vars

\* Every test completes with Ok
NextStatusOk ==
    \/ Frame
    \/ TestCompletes("Ok")
    \/ TimePasses

\* Frames keep being rendered, every test completes, with Ok, and time passes
SpecStatusOk ==
    /\ InitStatus
    /\ [][NextStatusOk]_vars
    /\ WF_vars(Frame)
    /\ WF_vars(TestCompletes("Ok"))
    /\ WF_vars(TimePasses)

(***************************************************************************)
(* The application: completions queued by the callbacks of load_node and   *)
(* drained into the graph by the frames of the user interface, which are   *)
(* the frames of the Available arm of App::update                          *)
(***************************************************************************)

\* The most nodes the user creates and removes
MaxEdits == 2

\* Titles of the pages the user and the links name
AppTitles == {<<"A">>, <<"B">>}

\* WikipediaPage::title for the pages of the application, worked out once
Titles ==
    [pathinfo \in {from_title(page_title).pathinfo : page_title \in AppTitles}
        |-> title([pathinfo |-> pathinfo, body |-> None])]

\* page.title()
label_of(page) == Titles[page.pathinfo]

\* The body the API answers a page's request with: the page's title and
\* its one link
AnswerFor(page) ==
    LinksBody(Some(label_of(page)),
              Some(<<Some(IF label_of(page) = <<"A">> THEN <<"B">> ELSE <<"A">>)>>))

\* A node of egui_graphs: its payload and label; id tells the nodes that have
\* held one index apart
Node(page, label, id) == [page |-> page, label |-> label, id |-> id]

\* Graph::node and Graph::node_mut: None at an index that holds no node
node(g, index) ==
    IF index \in 1..Len(g.nodes) THEN g.nodes[index] ELSE None

\* WikipediaGraph::node_exists_with_value over the nodes a StableGraph holds
stable_node_exists_with_value(g, page) ==
    LET found == {i \in 1..Len(g.nodes) :
                     /\ IsSome(g.nodes[i])
                     /\ Unwrap(g.nodes[i]).page.pathinfo = page.pathinfo}
    IN  IF found = {}
        THEN None
        ELSE Some(CHOOSE i \in found : \A j \in found : i <= j)

\* StableGraph::add_node: the index vacated last is taken again, a new one
\* when none is vacant
next_index(st) ==
    IF st.free # <<>> THEN Head(st.free) ELSE Len(st.graph.nodes) + 1

\* Graph::add_node of egui_graphs on the StableGraph
stable_add_node(st, page) ==
    LET slot == Some(Node(page, <<>>, st.next_id))
    IN  [st EXCEPT !.graph.nodes = IF st.free # <<>>
                                   THEN [@ EXCEPT ![Head(st.free)] = slot]
                                   ELSE Append(@, slot),
                   !.free = IF @ # <<>> THEN Tail(@) ELSE @,
                   !.next_id = @ + 1]

\* remove_node: the node and its edges go, its index becomes vacant
remove_node(st, index) ==
    IF ~IsSome(node(st.graph, index))
    THEN st
    ELSE [st EXCEPT !.graph.nodes[index] = None,
                    !.graph.edges = SelectSeq(@, LAMBDA e : e[1] # index
                                                          /\ e[2] # index),
                    !.free = <<index>> \o @]

\* self.graph.g_mut().clear()
clear(st) ==
    [st EXCEPT !.graph = Graph(<<>>, <<>>), !.free = <<>>]

\* The for loop of try_expand_node on the application's graph
RECURSIVE StableExpandLoop(_, _, _)
StableExpandLoop(st, index, pages) ==
    IF pages = <<>>
    THEN st
    ELSE LET page == pages[1]
             existing == stable_node_exists_with_value(st.graph, page)
             next ==
                 IF IsSome(existing)
                 THEN IF ~edge_exists(st.graph, index, Unwrap(existing))
                      THEN [st EXCEPT !.graph =
                               add_edge(st.graph, index, Unwrap(existing))]
                      ELSE st
                 ELSE [stable_add_node(st, page) EXCEPT
                          !.indicies = Append(@, next_index(st))]
         IN  StableExpandLoop(next, index, Tail(pages))

\* The labels expand_node_with_graph gives the nodes an expansion created
RECURSIVE LabelNew(_, _)
LabelNew(g, indicies) ==
    IF indicies = <<>>
    THEN g
    ELSE LET new == Unwrap(g.nodes[indicies[1]])
         IN  LabelNew([g EXCEPT !.nodes[indicies[1]] =
                          Some([new EXCEPT !.label = label_of(new.page)])],
                      Tail(indicies))

\* expand_node_with_graph: try_expand_node, then the new nodes are labelled;
\* nothing but a warning when the node is gone or its links are not loaded
expand_node_with_graph(st, index) ==
    IF ~IsSome(node(st.graph, index))
    THEN st
    ELSE LET linked_pages ==
                 try_get_linked_pages(Unwrap(node(st.graph, index)).page)
         IN  IF ~IsSome(linked_pages)
             THEN st
             ELSE LET looped == StableExpandLoop([st EXCEPT !.indicies = <<>>],
                                                 index, Unwrap(linked_pages))
                      connected == ConnectNew(looped.graph, index,
                                              looped.indicies)
                  IN  [looped EXCEPT
                          !.graph = LabelNew(connected, looped.indicies),
                          !.indicies = <<>>]

\* One element of node_stores: (index, response, action); origin is the node
\* the request was made for and fetch numbers the request
Completion(fetch, response) ==
    [index |-> fetch.index, response |-> response, action |-> fetch.action,
     origin |-> fetch.origin, fetch |-> fetch.fetch]

\* A closure that keeps only the completion it is called with
store_callback_vec_replacing(data, entry) == <<entry>>

\* The closure of store_callback_vec: data.push((index, response, action))
store_callback_vec(data, entry) == Append(data, entry)

\* A drain that leaves the elements it hands out in the queue
drain_keeping(data) == [taken |-> data, left |-> data]

\* store.drain(0..len)
drain(data) == [taken |-> data, left |-> <<>>]

\* A drain that expands the node of a failed request as well
apply_completion_expanding(st, entry) ==
    IF ~IsSome(entry.response)
    THEN IF entry.action = "Expand"
         THEN expand_node_with_graph(st, entry.index)
         ELSE st
    ELSE IF ~IsSome(node(st.graph, entry.index))
         THEN st
         ELSE LET page == Unwrap(entry.response)
                  set == [st EXCEPT !.graph.nodes[entry.index] =
                             Some([Unwrap(@) EXCEPT !.label = label_of(page),
                                                    !.page = page])]
              IN  IF entry.action = "Expand"
                  THEN expand_node_with_graph(set, entry.index)
                  ELSE set

\* The filter_map and for_each closures of update_nodes_from_store on one
\* drained element
apply_completion(st, entry) ==
    IF ~IsSome(entry.response)
    THEN st
    ELSE IF ~IsSome(node(st.graph, entry.index))
         THEN st
         ELSE LET page == Unwrap(entry.response)
                  set == [st EXCEPT !.graph.nodes[entry.index] =
                             Some([Unwrap(@) EXCEPT !.label = label_of(page),
                                                    !.page = page])]
              IN  IF entry.action = "Expand"
                  THEN expand_node_with_graph(set, entry.index)
                  ELSE set

\* What became of a drained element: dropped by the filter_map, applied to
\* the node at its index, or warned about for want of a node
Outcome(st, entry) ==
    IF ~IsSome(entry.response)
    THEN "failed"
    ELSE IF IsSome(node(st.graph, entry.index)) THEN "applied" ELSE "no node"

\* A frame that waits for the mutex of node_stores
lock_waiting(a) == [a EXCEPT !.ui = "blocked"]

\* store.try_lock() of update_nodes_from_store returning Err: a warning, and
\* the frame goes on
try_lock_failed(a) == [a EXCEPT !.ui = "idle"]

\* The step a callback or a frame's update_nodes_from_store leaves behind:
\* the graph and the queue as they were before it
Step(op, entry) ==
    [op |-> op, entry |-> entry, graph |-> app.stable.graph,
     node_stores |-> app.node_stores]

\* What the user's own operations leave behind
UserStep ==
    [op |-> "user", entry |-> None, graph |-> Graph(<<>>, <<>>),
     node_stores |-> <<>>]

\* node_editor, "Create/Select node": a node for the title unless one exists;
\* loaded tells whether the page text could be loaded on the spot
CreateNode ==
    /\ app.ui = "idle"
    /\ app.edits < MaxEdits
    /\ \E page_title \in AppTitles, loaded \in BOOLEAN :
           LET page == from_title(page_title)
               index == next_index(app.stable)
               added == stable_add_node(app.stable, page)
           IN  /\ ~IsSome(stable_node_exists_with_value(app.stable.graph, page))
               /\ app' = [app EXCEPT
                     !.stable = IF loaded
                                THEN [added EXCEPT !.graph.nodes[index] =
                                        Some([Unwrap(@) EXCEPT
                                                !.label = label_of(page)])]
                                ELSE added,
                     !.edits = @ + 1,
                     !.last = UserStep]
    /\ UNCHANGED <<fetchVars, graphVars, pageVars, configVars, codegen, net>>

\* node_details_ui, "Remove node": remove_selected
RemoveNode ==
    /\ app.ui = "idle"
    /\ app.edits < MaxEdits
    /\ \E index \in 1..Len(app.stable.graph.nodes) :
           /\ IsSome(node(app.stable.graph, index))
           /\ app' = [app EXCEPT !.stable = remove_node(app.stable, index),
                                 !.edits = @ + 1,
                                 !.last = UserStep]
    /\ UNCHANGED <<fetchVars, graphVars, pageVars, configVars, codegen, net>>

\* node_editor, "Clear all nodes"
ClearAll ==
    /\ app.ui = "idle"
    /\ app.edits < MaxEdits
    /\ app.stable.graph.nodes # <<>>
    /\ app' = [app EXCEPT !.stable = clear(app.stable),
                          !.edits = @ + 1,
                          !.last = UserStep]
    /\ UNCHANGED <<fetchVars, graphVars, pageVars, configVars, codegen, net>>

\* expand_node, load_node(index, NodeAction::Expand): a request for the page
\* of the node at index is under way, its callback made by store_callback_vec
LoadNode ==
    /\ app.ui = "idle"
    /\ app.next_fetch <= MaxFetches
    /\ \E index \in 1..Len(app.stable.graph.nodes) :
           /\ IsSome(node(app.stable.graph, index))
           /\ app' = [app EXCEPT
                 !.fetches = @ \cup
                     {[index |-> index, action |-> "Expand",
                       origin |-> Unwrap(node(app.stable.graph, index)).id,
                       page |-> Unwrap(node(app.stable.graph, index)).page,
                       fetch |-> app.next_fetch]},
                 !.next_fetch = @ + 1,
                 !.last = UserStep]
    /\ UNCHANGED <<fetchVars, graphVars, pageVars, configVars, codegen, net>>

\* A request completes and its callback is called with the page or with an
\* error: data.lock() returns once the mutex of node_stores is free
CallbackLocks ==
    /\ app.lock = "free"
    /\ \E fetch \in app.fetches, ok \in BOOLEAN :
           LET response == load_page_text(fetch.page,
                               IF ok THEN Some(AnswerFor(fetch.page)) ELSE None)
           IN  app' = [app EXCEPT
                   !.fetches = @ \ {fetch},
                   !.lock = "callback",
                   !.pushing = Some(Completion(fetch, response)),
                   !.last = Step("lock", Some(Completion(fetch, response)))]
    /\ UNCHANGED <<fetchVars, graphVars, pageVars, configVars, codegen, net>>

\* The callback pushes its element and lets go of the mutex
CallbackPushes ==
    /\ app.lock = "callback"
    /\ app' = [app EXCEPT
           !.node_stores = store_callback_vec(@, Unwrap(app.pushing)),
           !.lock = "free",
           !.pushing = None,
           !.last = Step("push", app.pushing)]
    /\ UNCHANGED <<fetchVars, graphVars, pageVars, configVars, codegen, net>>

\* update_nodes_from_store in a frame: try_lock succeeds and the queue is
\* drained
TickDrains ==
    /\ app.ui = "idle"
    /\ app.lock = "free"
    /\ app' = [app EXCEPT
           !.lock = "ui",
           !.ui = "draining",
           !.batch = drain(app.node_stores).taken,
           !.node_stores = drain(app.node_stores).left,
           !.tick = <<>>,
           !.last = Step("drain", None)]
    /\ UNCHANGED <<fetchVars, graphVars, pageVars, configVars, codegen, net>>

\* update_nodes_from_store in a frame while a callback holds the mutex
TickFailsToLock ==
    /\ app.ui = "idle"
    /\ app.lock = "callback"
    /\ app' = [try_lock_failed(app) EXCEPT
           !.missed = @ \cup {app.node_stores[i].fetch :
                                 i \in 1..Len(app.node_stores)},
           !.last = Step("try_lock failed", None)]
    /\ UNCHANGED <<fetchVars, graphVars, pageVars, configVars, codegen, net>>

\* The next drained element goes through the filter_map and the for_each
ApplyCompletion ==
    /\ app.ui = "draining"
    /\ app.batch # <<>>
    /\ LET entry == Head(app.batch)
       IN  app' = [app EXCEPT
               !.stable = apply_completion(app.stable, entry),
               !.batch = Tail(@),
               !.tick = Append(@, Outcome(app.stable, entry)),
               !.handled[entry.fetch] = IF @ < 2 THEN @ + 1 ELSE @,
               !.last = Step("apply", Some(entry))]
    /\ UNCHANGED <<fetchVars, graphVars, pageVars, configVars, codegen, net>>

\* The guard of the mutex is dropped at the end of the Ok arm
TickEnds ==
    /\ app.ui = "draining"
    /\ app.batch = <<>>
    /\ app' = [app EXCEPT !.lock = "free", !.ui = "idle", !.tick = <<>>,
                          !.last = Step("end", None)]
    /\ UNCHANGED <<fetchVars, graphVars, pageVars, configVars, codegen, net>>

\* WikipediaGraphAppBuilder::build: the graph holds the random page as its
\* first node, or nothing when that page could not be loaded
Built(random) ==
    IF IsSome(random)
    THEN [stable |-> [graph |-> Graph(<<Some(Node(Unwrap(random),
                                                 label_of(Unwrap(random)), 1))>>,
                                      <<>>),
                      free |-> <<>>, next_id |-> 2, indicies |-> <<>>],
          edits |-> 0, fetches |-> {}, next_fetch |-> 1,
          node_stores |-> <<>>, lock |-> "free", pushing |-> None,
          ui |-> "idle", batch |-> <<>>, tick |-> <<>>,
          handled |-> [c \in 1..MaxFetches |-> 0], missed |-> {},
          last |-> UserStep]
    ELSE [stable |-> [graph |-> Graph(<<>>, <<>>),
                      free |-> <<>>, next_id |-> 1, indicies |-> <<>>],
          edits |-> 0, fetches |-> {}, next_fetch |-> 1,
          node_stores |-> <<>>, lock |-> "free", pushing |-> None,
          ui |-> "idle", batch |-> <<>>, tick |-> <<>>,
          handled |-> [c \in 1..MaxFetches |-> 0], missed |-> {},
          last |-> UserStep]

InitApp ==
    /\ timeout = None
    /\ script = <<>>
    /\ req = [e \in Envs |-> NewRequest(English)]
    /\ ConfigIdle
    /\ CodegenIdle
    /\ NetIdle
    /\ GraphIdle
    /\ PageIdle
    /\ app \in {Built(random) :
                   random \in {None} \cup {Some(from_title(page_title)) :
                                              page_title \in AppTitles}}

NextApp ==
    \/ CreateNode
    \/ RemoveNode
    \/ ClearAll
    \/ LoadNode
    \/ CallbackLocks
    \/ CallbackPushes
    \/ TickDrains
    \/ TickFailsToLock
    \/ ApplyCompletion
    \/ TickEnds

SpecApp == InitApp /\ [][NextApp]_vars

\* The application with frames that keep being rendered and callbacks that
\* keep running
SpecAppLive ==
    /\ SpecApp
    /\ WF_vars(TickDrains)
    /\ WF_vars(ApplyCompletion)
    /\ WF_vars(TickEnds)
    /\ WF_vars(CallbackPushes)

(***************************************************************************)
(* The whole program: a client at work beside a graph being built          *)
(***************************************************************************)
Init == InitFetch

Next ==
    \/ NextFetch
    \/ NextGraph
    \/ NextPage
    \/ NextUrl
    \/ NextConfig
    \/ NextCodegen
    \/ NextStatus
    \/ NextApp

Spec == Init /\ [][Next]_vars

(***************************************************************************)
(* Properties of the graph expansion                                       *)
(***************************************************************************)

\* The last operation was a try_expand_node that returned Some
Expanded == last.op = "try_expand_node" /\ IsSome(last.result)

C3_ExactlyOneEdgePerLink ==
    (Expanded /\ last.simpleBefore)
        => LET g == Graph(nodes, edges)
               pages == Unwrap(try_get_linked_pages(nodes[last.index]))
           IN  \A k \in 1..Len(pages) :
                   LET target == node_exists_with_value(g, pages[k])
                   IN  /\ IsSome(target)
                       /\ EdgeCount(g, last.index, Unwrap(target)) = 1

\* C4: try_expand_node never leaves an edge from the expanded node to itself.
C4_NoSelfEdge ==
    Expanded => ~edge_exists(Graph(nodes, edges), last.index, last.index)

\* The elements of a sequence that are not in known, each once, in order of
\* first occurrence
RECURSIVE FirstOccurrences(_, _)
FirstOccurrences(items, known) ==
    IF items = <<>>
    THEN <<>>
    ELSE IF items[1] \in known
         THEN FirstOccurrences(Tail(items), known)
         ELSE <<items[1]>>
              \o FirstOccurrences(Tail(items), known \cup {items[1]})

C14_FailedExpansionChangesNothing ==
    (last.op = "try_expand_node" /\ ~IsSome(last.result))
        => /\ ~last.changed
           /\ \A e \in Envs : req[e].issued = 0

\* A failed expansion of a node without a body, in a graph that has edges
C14_Witness ==
    /\ last.op = "try_expand_node"
    /\ ~IsSome(last.result)
    /\ last.index \in 1..Len(nodes)
    /\ ~IsSome(nodes[last.index].body)
    /\ Len(edges) > 0

\* C15: expansion reports its two failure causes apart: NodeNotFound when
\* the index resolves to no node, PageNotLoaded when the node's page has no
\* body; and it reports neither for a loaded page with an empty links array.
C15_FailureCausesDistinguished ==
    last.op = "try_expand_node"
        => LET report == ExpansionReport(last.result)
               resolved == last.index \in 1..last.nodesBefore
           IN  /\ ~resolved => report = "NodeNotFound"
               /\ (resolved /\ ~IsSome(nodes[last.index].body))
                      => report = "PageNotLoaded"
               /\ ( /\ resolved
                    /\ IsSome(nodes[last.index].body)
                    /\ Unwrap(nodes[last.index].body).links = Some(<<>>) )
                      => report = "Expanded"

\* C28: try_expand_node on a graph in which no two nodes have the same
\* pathinfo leaves a graph in which no two nodes have the same pathinfo: a
\* link to a node of the graph, one created earlier in the same call
\* included, makes no second node.
C28_ExpansionKeepsPathinfosUnique ==
    (Expanded /\ last.uniqueBefore) => Unique(Graph(nodes, edges))

\* An expansion of a page that links twice to one page not yet in the graph
C28_Witness ==
    /\ Expanded
    /\ last.uniqueBefore
    /\ Len(Unwrap(last.result)) = 1
    /\ LET pages == Unwrap(try_get_linked_pages(nodes[last.index]))
       IN  Len(pages) = 2 /\ pages[1] = pages[2]

\* The body of a page lacks the container of its links
LacksContainer(body) ==
    IF body.kind = "Links" THEN ~IsSome(body.links) ELSE ~IsSome(body.wikitext)

\* C18: for a loaded body without the container of its links the linked
\* pages are an empty sequence, so that expanding a node with such a body
\* succeeds with an empty result.
C18_MissingContainerIsEmpty ==
    ( /\ last.op = "try_expand_node"
      /\ last.index \in 1..last.nodesBefore
      /\ IsSome(nodes[last.index].body)
      /\ LacksContainer(Unwrap(nodes[last.index].body)) )
        => /\ try_get_linked_pages(nodes[last.index]) = Some(<<>>)
           /\ last.result = Some(<<>>)

(***************************************************************************)
(* Properties of the page content                                          *)
(***************************************************************************)

\* The last method was try_get_linked_pages on a page whose body is of kind
LinkedPagesOf(kind) ==
    /\ selfLast.op = "try_get_linked_pages"
    /\ IsSome(self.body)
    /\ Unwrap(self.body).kind = kind

\* The titles, each once and in order of first occurrence, that are not
\* filtered pages
RECURSIVE DistinctUnfiltered(_, _)
DistinctUnfiltered(titles, seen) ==
    IF titles = <<>>
    THEN <<>>
    ELSE IF titles[1] \in seen \/ titles[1] \in FILTERED_PAGES
         THEN DistinctUnfiltered(Tail(titles), seen)
         ELSE <<titles[1]>>
              \o DistinctUnfiltered(Tail(titles), seen \cup {titles[1]})

\* C16: for a Links payload the linked pages hold each distinct link target
\* once, in order of first occurrence, and no page of the exclusion list.
C16_LinksDistinctAndFiltered ==
    (LinkedPagesOf("Links") /\ IsSome(Unwrap(self.body).links))
        => LET entries == SelectSeq(Unwrap(Unwrap(self.body).links), IsSome)
               titles == [k \in 1..Len(entries) |-> Unwrap(entries[k])]
               expected == DistinctUnfiltered(titles, {})
           IN  selfLast.linked =
                   Some([k \in 1..Len(expected) |-> from_title(expected[k])])

\* C17: for a Wikitext payload the linked pages are, in order of first
\* occurrence and once each, the distinct targets of the matches that have
\* at least one occurrence whose match names no excluded page; a target is
\* not lost because an earlier occurrence of it was excluded.
C17_WikitextTargetsKept ==
    (LinkedPagesOf("WikiText") /\ IsSome(Unwrap(self.body).wikitext))
        => LET captures == captures_iter(Unwrap(Unwrap(self.body).wikitext), 1)
               HasFreeOccurrence(first) ==
                   \E k \in 1..Len(captures) :
                       /\ captures[k].target = first.target
                       /\ NotFiltered(captures[k])
               expected == SelectSeq(unique_by(captures, {}), HasFreeOccurrence)
           IN  selfLast.linked =
                   Some([k \in 1..Len(expected) |-> from_title(expected[k].target)])

\* C19: the identity of a body is the title of the entry under query.pages
\* for a Links payload and parse.title for a Wikitext payload; get_pathinfo
\* fails only when that key is absent.
C19_IdentityFromBothPayloads ==
    IsSome(self.body)
        => get_pathinfo(Unwrap(self.body)) = Unwrap(self.body).title

\* C20: set_page_body with a body that carries no identity attaches the body
\* and leaves the pathinfo as it was, not empty.
C20_BodyWithoutIdentityKeepsPathinfo ==
    (selfLast.op = "set_page_body" /\ ~IsSome(Unwrap(selfLast.data).title))
        => /\ self.body = selfLast.data
           /\ self.pathinfo = selfLast.pathinfoBefore
           /\ self.pathinfo # <<>>

\* A Links body without a title attached to the page b_c
C20_Witness ==
    /\ selfLast.op = "set_page_body"
    /\ self.body = selfLast.data
    /\ Unwrap(self.body).kind = "Links"
    /\ ~IsSome(Unwrap(self.body).title)
    /\ self.pathinfo = <<"b", "_", "c">>

\* C21: deserialising a body for the Basic request kind fails for every
\* text, JSON or not; it never makes a body.
C21_BasicNeverDeserialises ==
    (selfLast.op = "from_url_type" /\ selfLast.arg[1] = "Basic")
        => selfLast.out = None

\* The Basic kind given a text that is JSON
C21_Witness ==
    /\ selfLast.op = "from_url_type"
    /\ selfLast.arg = <<"Basic", <<"{", "}">>>>
    /\ selfLast.out = None

\* C23: for every language with a wiki code and every pathinfo, one with a
\* ':' included, the Basic URL is https://{code}.wikipedia.org/wiki/{pathinfo}.
C23_BasicUrlShape ==
    ( /\ selfLast.op = "url_with"
      /\ selfLast.arg[1] = "Basic"
      /\ IsSome(as_code_wiki(selfLast.arg[2])) )
        => LET code == Unwrap(as_code_wiki(selfLast.arg[2]))
               pathinfo == selfLast.arg[3]
           IN  selfLast.out =
                   Some(Url(<<"h", "t", "t", "p", "s">>, Some(code \o WikipediaDomain),
                            <<"/", "w", "i", "k", "i", "/">> \o pathinfo, None))

\* C24: for every title T in pathinfo form, one with a '/' included,
\* from_title(T), try_from_path("/wiki/" + T) and
\* try_from_url("https://wikipedia.org/wiki/" + T) all succeed with the same
\* pathinfo.
C24_ConstructorsAgree ==
    selfLast.op = "page_creation"
        => LET made == selfLast.out
           IN  /\ made.try_from_path.tag = "Ok"
               /\ made.try_from_url.tag = "Ok"
               /\ Unwrap(made.try_from_path.page).pathinfo = made.from_title.pathinfo
               /\ Unwrap(made.try_from_url.page).pathinfo = made.from_title.pathinfo

\* C25: title() is the decoded pathinfo, underscores replaced by spaces,
\* with the first character of every word in upper case and every other
\* character as it was: none changed, none removed.
C25_TitleChangesOnlyFirstLetters ==
    selfLast.op = "title"
        => LET decoded == url_decode(ReplaceChar(self.pathinfo, "_", " "))
               FirstOfWord(i) ==
                   decoded[i] # " " /\ (i = 1 \/ decoded[i - 1] = " ")
           IN  selfLast.out =
                   [i \in 1..Len(decoded) |->
                       IF FirstOfWord(i) THEN to_uppercase(decoded[i]) ELSE decoded[i]]

\* C27: unload_body clears the body and changes nothing else: the page is
\* not loaded afterwards and its pathinfo is the one from before.
C27_UnloadBodyKeepsPathinfo ==
    selfLast.op = "unload_body"
        => /\ ~is_page_text_loaded(self)
           /\ self.pathinfo = selfLast.pathinfoBefore

\* A page that had a body, and a pathinfo taken from it, unloaded
C27_Witness ==
    /\ selfLast.op = "unload_body"
    /\ selfLast.arg = TRUE
    /\ self = [pathinfo |-> <<"b", " ", "c">>, body |-> None]

\* C29: the pathinfo of a page is in normalised form, spaces replaced with
\* underscores, in every reachable state.
C29_PathinfoNormalised ==
    ~Contains(self.pathinfo, <<" ">>)

\* C30: the page load_page_text delivers to its callback has the pathinfo
\* of the page it was called on.
C30_LoadedPageKeepsPathinfo ==
    (selfLast.op = "load_page_text" /\ IsSome(selfLast.out))
        => Unwrap(selfLast.out).pathinfo = self.pathinfo

\* C22: a client whose language has no domain code gets the language error
\* from get_callback: the call has returned it, no request was issued or is
\* in flight, and the callback has not run and cannot run any more.
C22_LanguageErrorBeforeAnyRequest ==
    \A e \in Envs :
        (req[e].pc # "start" /\ ~IsSome(as_code_wiki(req[e].language)))
            => /\ req[e].pc = "refused"
               /\ req[e].outcome = Some(ErrLanguageInvalid)
               /\ req[e].issued = 0
               /\ req[e].inflight = {}
               /\ req[e].callbacks = 0

\* get_callback has returned the language error in both builds
C22_Witness ==
    \A e \in Envs :
        /\ req[e].pc = "refused"
        /\ req[e].outcome = Some(ErrLanguageInvalid)

(***************************************************************************)
(* Properties of the client configuration                                  *)
(***************************************************************************)

\* The header set has an entry of this name, upper and lower case alike
Present(headers, name) ==
    \E h \in headers : Some(h.name) = HeaderName_from_str(name)

\* C26: add_header or user_agent with a name that the header set already
\* has returns a HeaderError and leaves the header set as it was.
C26_DuplicateHeaderRejected ==
    ( /\ configLast.op \in {"add_header", "user_agent", "builder_default"}
      /\ Present(configLast.headersBefore, configLast.name) )
        => /\ configLast.tag # "Ok"
           /\ config.headers = configLast.headersBefore

(***************************************************************************)
(* Properties of the fetch engine                                          *)
(***************************************************************************)

\* The number of redirects among the responses the caller received
RECURSIVE RedirectsIn(_)
RedirectsIn(received) ==
    IF received = <<>>
    THEN 0
    ELSE (IF received[1].tag = "Redirect" THEN 1 ELSE 0)
         + RedirectsIn(Tail(received))

\* C1: for every logical fetch the caller's completion callback runs exactly
\* once: never more than once (not once per hop), and once by the time
\* get_request has returned what a response decided.
C1_CallbackExactlyOnce ==
    \A e \in Envs :
        /\ req[e].callbacks <= 1
        /\ (req[e].pc = "done" /\ req[e].outcome # Some(ErrTimeout))
               => req[e].callbacks = 1

\* C5: a fetch in which every hop answered with a redirect until the budget
\* ran out ends with TooManyRedirects, never with a body, and no request is
\* issued beyond the budget.
C5_AllRedirectsEndTooManyRedirects ==
    \A e \in Envs :
        LET r == req[e]
        IN  /\ r.issued <= CLIENT_REDIRECTS
            /\ ( /\ r.pc = "done"
                 /\ Len(r.received) = r.issued
                 /\ RedirectsIn(r.received) = Len(r.received) )
               => /\ r.outcome = Some(ErrTooManyRedirects)
                  /\ r.issued = CLIENT_REDIRECTS
                  /\ r.inflight = {}

C5_Witness ==
    \E e \in Envs :
        /\ req[e].pc = "done"
        /\ req[e].outcome = Some(ErrTooManyRedirects)
        /\ RedirectsIn(req[e].received) = CLIENT_REDIRECTS

\* C6: a fetch whose first response is a redirect to X and whose second is
\* a 200 returns the body served by X, having consumed exactly one unit of
\* the redirect budget.
C6_OneRedirectConsumesOneUnit ==
    \A e \in Envs :
        LET r == req[e]
        IN  ( /\ r.pc = "done"
              /\ Len(r.received) = 2
              /\ r.received[1].tag = "Redirect"
              /\ r.received[2].tag = "Ok" )
            => /\ r.outcome = Some(OkBody(BodyOf(r.received[1].text)))
               /\ CLIENT_REDIRECTS - r.redirects = 1

\* C7: CLIENT_REDIRECTS is the number of redirect hops one fetch follows:
\* TooManyRedirects is the outcome only of a redirect beyond that number.
C7_BudgetCountsRedirectHops ==
    \A e \in Envs :
        req[e].outcome = Some(ErrTooManyRedirects)
            => RedirectsIn(req[e].received) > CLIENT_REDIRECTS

\* C8: once a fetch has returned Timeout, a response that arrives later has
\* no effect: the callback does not run and the delivering worker does not
\* panic, in either build.
C8_LateResponseDiscarded ==
    \A e \in Envs :
        req[e].outcome = Some(ErrTimeout)
            => /\ req[e].callbacks = req[e].callbacksAtReturn
               /\ ~req[e].panicked

\* C9: for the same request and the same transport responses the channel
\* build and the polled build return the same outcome.
C9_BuildsAgree ==
    (req["native"].pc = "done" /\ req["wasm"].pc = "done")
        => req["native"].outcome = req["wasm"].outcome

\* C10: with a configured timeout T a logical fetch returns no later than T
\* after it was started, redirect hops included.
C10_WholeFetchWithinTimeout ==
    \A e \in Envs :
        (req[e].pc = "done" /\ IsSome(timeout))
            => req[e].elapsed <= Unwrap(timeout)

\* C11: a hop that answers 404 ends the fetch at once with PageNotFound: it
\* is the last response the caller takes, no request is issued after it
\* whatever is left of the redirect budget, and the outcome is PageNotFound
\* (not TooManyRedirects, not Unknown).
C11_NotFoundEndsFetch ==
    \A e \in Envs :
        LET r == req[e]
        IN  \A k \in 1..Len(r.received) :
                (script[k].ok /\ script[k].status = 404)
                    => /\ k = Len(r.received)
                       /\ r.pc = "done"
                       /\ r.outcome = Some(ErrPageNotFound)
                       /\ r.issued = k

C11_Witness ==
    \E e \in Envs :
        /\ req[e].pc = "done"
        /\ req[e].received = <<ErrPageNotFound>>
        /\ script[1].status = 404
        /\ req[e].redirects > 0

\* The url the request of hop k went to
HopUrl(received, k) == IF k = 1 THEN InitialUrl ELSE received[k - 1].text

\* C12: every hop response the caller takes is classified into exactly one
\* outcome: a transport failure is Backend; a 3xx with a Location header is a
\* Redirect to that location; a 404 is PageNotFound; a 2xx with decodable
\* text is the body; a 2xx with undecodable text is NoPageBody; every other
\* status, a 3xx without Location and a number that is no HTTP status
\* included, is Unknown carrying that number.
C12_ResponseClassification ==
    \A e \in Envs :
        LET r == req[e]
        IN  \A k \in 1..Len(r.received) :
                LET response == script[k]
                    status == response.status
                    got == r.received[k]
                IN  /\ ~response.ok => got = ErrBackend
                    /\ (response.ok /\ status \in 300..399 /\ IsSome(response.location))
                           => got = ErrRedirect(Unwrap(response.location))
                    /\ (response.ok /\ status = 404) => got = ErrPageNotFound
                    /\ (response.ok /\ status \in 200..299 /\ response.text)
                           => got = OkBody(BodyOf(HopUrl(r.received, k)))
                    /\ (response.ok /\ status \in 200..299 /\ ~response.text)
                           => got = ErrNoPageBody
                    /\ ( /\ response.ok
                         /\ status # 404
                         /\ status \notin 200..299
                         /\ ~(status \in 300..399 /\ IsSome(response.location)) )
                           => got = ErrUnknown(status)

\* A fetch that took a redirect and then a 2xx with undecodable text
C12_Witness ==
    \E e \in Envs :
        /\ Len(req[e].received) = 2
        /\ req[e].received[1].tag = "Redirect"
        /\ script[2].ok /\ script[2].status = 200 /\ ~script[2].text
        /\ req[e].outcome = Some(ErrNoPageBody)

\* C34: the hops of one fetch are sequential: at most one request of the
\* fetch is in flight, and when hop n+1 has been issued the responses of
\* the hops 1..n have been received and every one of them was a redirect.
C34_HopsSequential ==
    \A e \in Envs :
        LET r == req[e]
        IN  /\ Cardinality(r.inflight) <= 1
            /\ \A n \in 1..(r.issued - 1) :
                   /\ n <= Len(r.received)
                   /\ r.received[n].tag = "Redirect"

\* The second hop is in flight after the redirect of the first was received
C34_Witness ==
    \E e \in Envs :
        /\ req[e].issued = 2
        /\ req[e].inflight # {}
        /\ Len(req[e].received) = 1
        /\ req[e].received[1].tag = "Redirect"

(***************************************************************************)
(* Properties of the language table                                        *)
(***************************************************************************)

\* C39: every language of the generated table has a Wikipedia domain code:
\* base_url returns a URL, never LanguageInvalidError, for each of them.
C39_TableLanguagesResolve ==
    /\ IsSome(codegen.languages)
           => \A k \in 1..Len(Unwrap(codegen.languages)) :
                  IsSome(as_code_wiki(Unwrap(codegen.languages)[k]))
    /\ IsSome(codegen.lookup) => IsSome(Unwrap(codegen.lookup).url)

(***************************************************************************)
(* Properties of the connection status                                     *)
(***************************************************************************)

\* C36: when every test completes with Ok and frames keep being rendered,
\* the status, Unavailable at the start, becomes Available at some time.
C36_EventuallyAvailable == <>(net.status.tag = "Available")

\* C37: in every frame rendered while the status is Unavailable the time
\* elapsed since last_retry is at most wait_time: the subtraction of the
\* remaining time does not underflow.
C37_RemainingTimeNeverUnderflows ==
    /\ ~net.panicked
    /\ net.frame.arm = "Unavailable"
           => net.frame.elapsed <= net.frame.wait_time

(***************************************************************************)
(* Properties of the completions of the application                        *)
(***************************************************************************)

\* The element the last step pushed or applied
LastEntry == Unwrap(app.last.entry)

\* The node an element was requested for was still at the element's index
\* when the element was applied
OriginPresent ==
    LET before == node(app.last.graph, LastEntry.index)
    IN  IsSome(before) /\ Unwrap(before).id = LastEntry.origin

\* C31: a drained completion is applied to the node its request was made
\* for and to no other: when that node was removed, the graph was cleared or
\* the index went to another node, the drain changes nothing in the graph.
C31_CompletionOnlyForOriginatingNode ==
    app.last.op = "apply"
        => (OriginPresent \/ app.stable.graph = app.last.graph)

\* C32: a callback changes nothing but the queue, and the queue only by
\* appending its one element; what completions change in the graph is
\* changed by update_nodes_from_store while it holds the mutex of the queue.
C32_CallbackOnlyAppends ==
    /\ app.last.op = "lock"
           => /\ app.stable.graph = app.last.graph
              /\ app.node_stores = app.last.node_stores
    /\ app.last.op = "push"
           => /\ app.stable.graph = app.last.graph
              /\ app.node_stores = Append(app.last.node_stores, LastEntry)
    /\ app.last.op = "apply" => app.lock = "ui"

\* A callback has pushed its element behind one that was waiting already
C32_Witness ==
    /\ app.last.op = "push"
    /\ Len(app.node_stores) = 2
    /\ app.node_stores[2] = LastEntry

\* The completion of a request waits in the queue
Queued(fetch) ==
    \E i \in 1..Len(app.node_stores) : app.node_stores[i].fetch = fetch

\* C33: with frames that keep being rendered, every completion in the queue
\* is drained by one later frame and handled once, never twice; a frame whose
\* try_lock fails takes nothing out of the queue and applies nothing.
C33_EachCompletionHandledOnce ==
    /\ [](\A fetch \in 1..MaxFetches :
              /\ app.handled[fetch] <= 1
              /\ Queued(fetch) => app.handled[fetch] = 0)
    /\ [](app.last.op = "try_lock failed"
              => /\ app.node_stores = app.last.node_stores
                 /\ app.stable.graph = app.last.graph
                 /\ app.batch = <<>>)
    /\ \A fetch \in 1..MaxFetches :
           Queued(fetch) ~> (app.handled[fetch] = 1 /\ ~Queued(fetch))

\* A completion that waited in the queue through a frame whose try_lock
\* failed has been handled by a later frame
C33_Witness ==
    \E fetch \in app.missed : app.handled[fetch] = 1

C38_FailureChangesNothing ==
    /\ (app.last.op = "apply" /\ ~IsSome(LastEntry.response))
           => app.stable = [app.stable EXCEPT !.graph = app.last.graph]
    /\ app.batch # <<>> => (app.ui = "draining" /\ app.lock = "ui")

\* In one frame a failure with the action Expand was dropped and the
\* completion drained after it was applied and expanded its node
C38_Witness ==
    /\ app.last.op = "apply"
    /\ app.tick = <<"failed", "applied">>
    /\ LastEntry.action = "Expand"
    /\ app.stable.graph # app.last.graph

====
